---- MODULE Spec2Model ----
(***************************************************************************)
(* A model of the FSX Plugin Manager (src/PluginManager.ts), of the host's *)
(* plugin command surface (src/PluginCommand.ts) and of the host's message  *)
(* and button listeners (src/unnamed/part_000).                             *)
(*                                                                          *)
(* Plugin sources are DSL texts (strings).  The scope validator works on    *)
(* the text, character by character, as String.prototype.includes does.     *)
(* What the regex parsers extract from a text is given beside it, section   *)
(* by section.  Time is counted in seconds; Date.now() is now * 1000.       *)
(***************************************************************************)
EXTENDS Integers, Sequences, FiniteSets, TLC

VARIABLES
    persisted,         \* rows of prisma.installedPlugin when the process starts
    startupPc,         \* loadAllInstalledPlugins: "query" | "loading" | "done"
    startupQueue,      \* rows of the startup findMany still to be processed
    installedPlugins,  \* PluginManager.installedPlugins: guild -> list of records
    loadedPlugins,     \* PluginManager.loadedPlugins: guild -> item ids, in Map order
    hostWired,         \* whether the host registered its own button listener
    cooldowns,         \* PluginManager.cooldowns: key -> expiry (ms)
    clientCooldowns,   \* (client as any).cooldowns of the host's button listener
    now,               \* the clock, in seconds
    last,              \* the last call or chat event, with what it returned or caused
    vIn,               \* ImportValidator.validate: the arguments of the call
    vOut,              \* ImportValidator.validate: the value returned
    blockedDomains,    \* PluginManager.blockedDomains: the Set of host names
    requestLimits,     \* PluginManager.requestLimits
    httpLogs,          \* PluginManager.httpLogs: "guild:plugin" -> list of entries
    inFlight,          \* calls of the HTTP library that have not settled yet
    running,           \* the handler executions in flight: the chain of awaited
                       \* executeCode calls, the outermost first
    pass               \* the pass of handleLogicListeners in progress, if any:
                       \* its message and the position of its loops

vars == << persisted, startupPc, startupQueue, installedPlugins, loadedPlugins,
           hostWired, cooldowns, clientCooldowns, now, last, vIn, vOut,
           blockedDomains, requestLimits, httpLogs, inFlight, running,
           pass >>

(***************************************************************************)
(* Text                                                                    *)
(***************************************************************************)

\* String.prototype.includes: f occurs in t as a substring.
Includes(t, f) ==
    \E i \in 1..(Len(t) - Len(f) + 1) : SubSeq(t, i, i + Len(f) - 1) = f

\* String.prototype.indexOf, 1-based; 0 when c does not occur in t.
IndexOf(t, c) ==
    LET at == { i \in 1..(Len(t) - Len(c) + 1) : SubSeq(t, i, i + Len(c) - 1) = c }
    IN IF at = { } THEN 0 ELSE CHOOSE i \in at : \A j \in at : i <= j

\* The elements of a sequence.
Range(s) == { s[i] : i \in 1..Len(s) }

\* Array.prototype.includes.
ArrayIncludes(s, x) == x \in Range(s)

\* A sequence without its repeated elements, first occurrences kept: the
\* iteration order of a JavaScript Set filled in this order.
RECURSIVE Dedup(_)
Dedup(s) ==
    IF s = << >> THEN << >>
    ELSE LET front == Dedup(SubSeq(s, 1, Len(s) - 1))
             x == s[Len(s)]
         IN IF x \in Range(front) THEN front ELSE Append(front, x)

\* The sequences without repetition of at most n elements of S.
SeqsNoRepeat(S, n) ==
    { q \in UNION { [ 1..k -> S ] : k \in 0..n } :
        \A i, j \in 1..Len(q) : i # j => q[i] # q[j] }

\* Array.prototype.filter.
Filter(s, keep(_)) == SelectSeq(s, keep)

\* The concatenation of a sequence of sequences.
RECURSIVE Flatten(_)
Flatten(ss) == IF ss = << >> THEN << >> ELSE Head(ss) \o Flatten(Tail(ss))

(***************************************************************************)
(* MODULE_REQUIREMENTS                                                     *)
(***************************************************************************)

\* The table, in the order Object.entries walks it.
MODULE_REQUIREMENTS == <<
    << "buttons.create_button", << "buttons.use" >> >>,
    << "buttons.create", << "buttons.use" >> >>,
    << "on_click", << "buttons.use" >> >>,
    << "interactions.create", << "buttons.use" >> >>,
    << "db.set", << "db.write" >> >>,
    << "db.use", << "db.read" >> >>,
    << "db.send", << "messages.send" >> >>,
    << "db.insert", << "db.write" >> >>,
    << "db.update", << "db.write" >> >>,
    << "db.delete", << "db.write" >> >>,
    << "db.query", << "db.read" >> >>,
    << "db.query_one", << "db.read" >> >>,
    << "guilds.send", << "messages.send" >> >>,
    << "guilds.create_channel", << "channels.create" >> >>,
    << "guilds.fetch_channel", << "channels.read" >> >>,
    << "guilds.fetch", << "channels.read" >> >>,
    << "channel.delete", << "channels.delete" >> >>,
    << "channel.send", << "messages.send" >> >>,
    << "embeds.create", << "messages.send" >> >>,
    << "fastlink.connect", << "voice.connect" >> >>,
    << "users.get", << "messages.send" >> >>,
    << "users.fetch", << "messages.send" >> >>,
    << "user_has_permission", << "messages.send" >> >>,
    << "discord.permissions.has", << "messages.send" >> >>,
    << "on_member_join", << "messages.send" >> >>,
    << "on_member_leave", << "messages.send" >> >>,
    << "on_member_update", << "messages.send" >> >>,
    << "on_message_delete", << "messages.send" >> >>,
    << "on_voice_state_change", << "voice.connect" >> >>,
    << "on_reaction", << "events.reaction" >> >>,
    << "on_setting", << "messages.send" >> >>,
    << "on_load", << "db.read", "db.write" >> >>,
    << "emit.trigger", << "messages.send" >> >>,
    << "cooldown.is_on", << "messages.send" >> >>,
    << "cooldown.remaining", << "messages.send" >> >>,
    << "cooldown.set", << "messages.send" >> >>,
    << "time.now", << "messages.send" >> >>,
    << "math.random_int", << "messages.send" >> >>,
    << "event ", << "messages.send" >> >>,
    << "logic", << "messages.send" >> >>
>>

\* Every scope the table names.
AllScopes == UNION { Range(MODULE_REQUIREMENTS[i][2]) : i \in 1..Len(MODULE_REQUIREMENTS) }

(***************************************************************************)
(* ImportValidator                                                         *)
(***************************************************************************)

\* The entries of the table whose feature occurs in the code, in table order.
FeaturesFound(dslCode) ==
    LET found(entry) == Includes(dslCode, entry[1])
    IN Filter(MODULE_REQUIREMENTS, found)

\* A requiredScopes that keeps the first scope of each feature only.
RequiredScopes_first(dslCode) ==
    LET found == FeaturesFound(dslCode)
    IN Dedup([i \in 1..Len(found) |-> found[i][2][1]])

\* requiredScopes: a Set filled feature by feature, scope by scope.
RequiredScopes(dslCode) ==
    LET found == FeaturesFound(dslCode)
    IN Dedup(Flatten([i \in 1..Len(found) |-> found[i][2]]))

\* A validator that never finds a scope missing.
MissingScopes_none(dslCode, scopes) == << >>

\* missingScopes: the required scopes the manifest's scopes array lacks.
MissingScopes(dslCode, scopes) ==
    LET absent(required) == ~ArrayIncludes(scopes, required)
    IN Filter(RequiredScopes(dslCode), absent)

\* feature.split('.')[0] for a feature holding a dot, else nothing: the
\* module prefixes the second pass collects into usedModules.
UsedModules(dslCode) ==
    LET found == FeaturesFound(dslCode)
    IN { SubSeq(found[i][1], 1, IndexOf(found[i][1], ".") - 1) :
            i \in { j \in 1..Len(found) : Includes(found[j][1], ".") } }

\* declared.split('.')[0]
ModulePrefix(declared) ==
    IF Includes(declared, ".")
    THEN SubSeq(declared, 1, IndexOf(declared, ".") - 1)
    ELSE declared

\* unusedImports
UnusedImports(dslCode, declaredImports) ==
    LET used == UsedModules(dslCode)
        unused(declared) == ModulePrefix(declared) \notin used /\ declared \notin used
    IN Filter(declaredImports, unused)

\* ImportValidator.validate.  errors holds at most the one line
\* "Missing required scopes in manifest: ..." (its scope list is kept as
\* a sequence), warnings at most the one line about unused use statements.
validate(dslCode, declaredImports, scopes) ==
    LET missingScopes == MissingScopes(dslCode, scopes)
        unusedImports == UnusedImports(dslCode, declaredImports)
        errors == IF Len(missingScopes) > 0 THEN << missingScopes >> ELSE << >>
    IN [ valid |-> Len(errors) = 0,
         errors |-> errors,
         warnings |-> IF Len(unusedImports) > 0 THEN << unusedImports >> ELSE << >> ]

\* \w and '.' of the regex /use\s+([\w.]+)/g, over the characters the model's
\* texts are written in.
ImportChars == { "a", "b", "c", "d", "e", "f", "g", "h", "i", "j", "k", "l", "m",
                 "n", "o", "p", "q", "r", "s", "t", "u", "v", "w", "x", "y", "z",
                 "_", "." }

\* \s of the regex, over the characters the model's texts are written in.
SpaceChars == { " " }

CharAt(t, i) == SubSeq(t, i, i)

\* The first position at or after i that holds no character of cs.
RECURSIVE SkipWhile(_, _, _)
SkipWhile(t, i, cs) ==
    IF i <= Len(t) /\ CharAt(t, i) \in cs THEN SkipWhile(t, i + 1, cs) ELSE i

\* The first position at or after i where "use" starts; 0 when there is none.
NextUse(t, i) ==
    LET at == { j \in i..(Len(t) - 2) : SubSeq(t, j, j + 2) = "use" }
    IN IF at = { } THEN 0 ELSE CHOOSE j \in at : \A k \in at : j <= k

\* regex.exec in a loop from position i: each match of use\s+([\w.]+) gives
\* its group, and the search goes on after the match.
RECURSIVE ImportsFrom(_, _)
ImportsFrom(t, i) ==
    LET u == NextUse(t, i)
    IN IF u = 0 THEN << >>
       ELSE LET a == SkipWhile(t, u + 3, SpaceChars)
                b == SkipWhile(t, a, ImportChars)
            IN IF a > u + 3 /\ b > a
               THEN << SubSeq(t, a, b - 1) >> \o ImportsFrom(t, b)
               ELSE ImportsFrom(t, u + 1)

\* ImportValidator.extractImports
extractImports(dslCode) == ImportsFrom(dslCode, 1)

(***************************************************************************)
(* The sandbox surface (createPluginVM)                                    *)
(***************************************************************************)

\* What each function of the sandbox does on the host when plugin code
\* calls it.  A name with "()." is a method of the object the first
\* function returned.  None of them looks at the plugin's scopes.
SandboxCall(fn) ==
    CASE fn = "guilds.send" -> "message.send"
      [] fn = "guilds.create_channel" -> "channel.create"
      [] fn = "guilds.create_channel().send" -> "message.send"
      [] fn = "guilds.fetch" -> "guild.fetch"
      [] fn = "guilds.fetch().create_channel" -> "channel.create"
      [] fn = "guilds.fetch().create_channel().send" -> "message.send"
      [] fn = "guilds.fetch_channel" -> "channel.fetch"
      [] fn = "guilds.fetch_channel().send" -> "message.send"
      [] fn = "guilds.fetch_channel().delete" -> "channel.delete"
      [] fn = "db.insert" -> "db.write"
      [] fn = "db.query" -> "db.read"
      [] OTHER -> "none"

\* The scope MODULE_REQUIREMENTS asks for each host operation: that of
\* guilds.send, guilds.create_channel, channel.delete, guilds.fetch and
\* guilds.fetch_channel, db.insert, db.query.
OperationScope(op) ==
    CASE op = "message.send" -> "messages.send"
      [] op = "channel.create" -> "channels.create"
      [] op = "channel.delete" -> "channels.delete"
      [] op = "channel.fetch" -> "channels.read"
      [] op = "guild.fetch" -> "channels.read"
      [] op = "db.write" -> "db.write"
      [] op = "db.read" -> "db.read"

(***************************************************************************)
(* Plugin sources                                                          *)
(***************************************************************************)

\* A statement of a handler body: the DSL text as the author wrote it and
\* the sandbox functions running it calls, in order.
SendHello ==
    [ text |-> "guilds.send(message.channel_id, 'Hello') ",
      calls |-> << "guilds.send" >> ]
SendDenied ==
    [ text |-> "guilds.send(message.channel_id, 'Denied') ",
      calls |-> << "guilds.send" >> ]
SendWait ==
    [ text |-> "guilds.send(message.channel_id, 'Wait') ",
      calls |-> << "guilds.send" >> ]
CloseChannel ==
    [ text |-> "let ch = guilds.fetch_channel(message.channel_id) ch.delete() ",
      calls |-> << "guilds.fetch_channel", "guilds.fetch_channel().delete" >> ]
OpenChannel ==
    [ text |-> "let g = guilds.fetch() let c = g.create_channel('ticket') c.send('Opened') ",
      calls |-> << "guilds.fetch", "guilds.fetch().create_channel",
                   "guilds.fetch().create_channel().send" >> ]
InsertRow ==
    [ text |-> "db.insert('notes', parameters) ",
      calls |-> << "db.insert" >> ]

NoBody == << >>

\* A parameter declaration of a command's parameters block.
Param(name, type, required) == [ name |-> name, type |-> type, required |-> required ]

\* The sections of the plugin sources of the model, as their authors wrote
\* them.  cooldown 0 stands for no cooldown line.
SrcHello ==
    [ manifest |-> TRUE, name |-> "HelloWorld", scopes |-> << "messages.send", "buttons.use" >>,
      uses |-> << >>,
      commands |-> <<
        [ name |-> "hello", cooldown |-> 0, userPermissions |-> << >>,
          botPermissions |-> << >>, usage |-> "?hello", parameters |-> << >>,
          onPermissionDeniedBot |-> NoBody, onPermissionDeniedUser |-> NoBody,
          onCooldown |-> NoBody, onCommand |-> << SendHello >> ],
        [ name |-> "ticket", cooldown |-> 0, userPermissions |-> << >>,
          botPermissions |-> << >>, usage |-> "?ticket", parameters |-> << >>,
          onPermissionDeniedBot |-> NoBody, onPermissionDeniedUser |-> NoBody,
          onCooldown |-> NoBody, onCommand |-> << SendHello >> ],
        [ name |-> "roll", cooldown |-> 0, userPermissions |-> << >>,
          botPermissions |-> << >>, usage |-> "?roll <count> [loud] <note>",
          parameters |-> << Param("count", "int", TRUE), Param("loud", "bool", FALSE),
                            Param("note", "string", TRUE) >>,
          onPermissionDeniedBot |-> NoBody, onPermissionDeniedUser |-> NoBody,
          onCooldown |-> NoBody, onCommand |-> << SendHello >> ] >>,
      buttons |-> <<
        [ id |-> "open_ticket", cooldown |-> 0, onCooldown |-> NoBody,
          execute |-> << SendHello >> ] >> ]

SrcTickets ==
    [ manifest |-> TRUE, name |-> "TicketMaster",
      scopes |-> << "messages.send", "channels.read", "buttons.use" >>,
      uses |-> << "discord.guilds" >>,
      commands |-> <<
        [ name |-> "ticket.create", cooldown |-> 10,
          userPermissions |-> << "SEND_MESSAGES" >>,
          botPermissions |-> << "MANAGE_CHANNELS" >>,
          usage |-> "?ticket create <reason>",
          parameters |-> << Param("reason", "string", TRUE) >>,
          onPermissionDeniedBot |-> << SendDenied >>,
          onPermissionDeniedUser |-> << SendDenied >>,
          onCooldown |-> << SendWait >>, onCommand |-> << OpenChannel >> ],
        [ name |-> "ticket.close", cooldown |-> 0, userPermissions |-> << >>,
          botPermissions |-> << >>, usage |-> "?ticket close", parameters |-> << >>,
          onPermissionDeniedBot |-> NoBody, onPermissionDeniedUser |-> NoBody,
          onCooldown |-> NoBody, onCommand |-> << CloseChannel >> ],
        [ name |-> "hello", cooldown |-> 0, userPermissions |-> << >>,
          botPermissions |-> << >>, usage |-> "?hello", parameters |-> << >>,
          onPermissionDeniedBot |-> NoBody, onPermissionDeniedUser |-> NoBody,
          onCooldown |-> NoBody, onCommand |-> << SendWait >> ] >>,
      buttons |-> <<
        [ id |-> "open_ticket", cooldown |-> 5, onCooldown |-> << SendWait >>,
          execute |-> << OpenChannel >> ] >> ]

\* Scenario B of the specification: no scope declared, a persistence write.
SrcDbWrite ==
    [ manifest |-> TRUE, name |-> "Notes", scopes |-> << >>,
      uses |-> << >>,
      commands |-> <<
        [ name |-> "note", cooldown |-> 0, userPermissions |-> << >>,
          botPermissions |-> << >>, usage |-> "?note <text>",
          parameters |-> << Param("text", "string", TRUE) >>,
          onPermissionDeniedBot |-> NoBody, onPermissionDeniedUser |-> NoBody,
          onCooldown |-> NoBody, onCommand |-> << InsertRow >> ] >>,
      buttons |-> << >> ]

\* A plugin that imports db.set, as the sample plugin does, and never
\* calls it.
SrcImporter ==
    [ manifest |-> TRUE, name |-> "Importer", scopes |-> << "messages.send" >>,
      uses |-> << "db.set", "plugins.settings" >>,
      commands |-> <<
        [ name |-> "hi", cooldown |-> 0, userPermissions |-> << >>,
          botPermissions |-> << >>, usage |-> "?hi", parameters |-> << >>,
          onPermissionDeniedBot |-> NoBody, onPermissionDeniedUser |-> NoBody,
          onCooldown |-> NoBody, onCommand |-> << SendHello >> ] >>,
      buttons |-> << >> ]

\* A text with no manifest block.
SrcNoManifest ==
    [ manifest |-> FALSE, name |-> "", scopes |-> << >>, uses |-> << >>,
      commands |-> << >>, buttons |-> << >> ]

\* A sequence of strings joined by sep (Array.prototype.join).
RECURSIVE Join(_, _)
Join(ss, sep) ==
    IF ss = << >> THEN ""
    ELSE IF Len(ss) = 1 THEN ss[1]
    ELSE ss[1] \o sep \o Join(Tail(ss), sep)

\* The concatenation of a sequence of strings.
RECURSIVE Concat(_)
Concat(ss) == IF ss = << >> THEN "" ELSE Head(ss) \o Concat(Tail(ss))

Quoted(s) == "\"" \o s \o "\""

BodyText(body) == Concat([i \in 1..Len(body) |-> body[i].text])

\* A named block of a handler, written only when it has statements.
BlockText(keyword, body) ==
    IF body = NoBody THEN "" ELSE keyword \o " { " \o BodyText(body) \o "} "

ListText(keyword, xs) ==
    IF xs = << >> THEN "" ELSE keyword \o " [" \o Join(xs, ", ") \o "] "

ParamText(p) ==
    p.type \o " " \o Quoted(p.name) \o " { required "
        \o (IF p.required THEN "true" ELSE "false") \o " } "

CommandText(c) ==
    "command " \o c.name \o " { "
        \o (IF c.cooldown > 0 THEN "cooldown " \o ToString(c.cooldown) \o "s " ELSE "")
        \o ListText("user_permissions", [i \in 1..Len(c.userPermissions) |->
                                            "permissions." \o c.userPermissions[i]])
        \o ListText("bot_permissions", [i \in 1..Len(c.botPermissions) |->
                                            "permissions." \o c.botPermissions[i]])
        \o "usage " \o Quoted(c.usage) \o " "
        \o (IF c.parameters = << >> THEN ""
            ELSE "parameters { "
                 \o Concat([i \in 1..Len(c.parameters) |-> ParamText(c.parameters[i])])
                 \o "} ")
        \o BlockText("on_permission_denied bot_permissions", c.onPermissionDeniedBot)
        \o BlockText("on_permission_denied user_permissions", c.onPermissionDeniedUser)
        \o BlockText("on_cooldown", c.onCooldown)
        \o BlockText("on_command", c.onCommand)
        \o "} "

ButtonText(b) ==
    "on_click " \o b.id \o " { "
        \o (IF b.cooldown > 0 THEN "cooldown " \o ToString(b.cooldown) \o "s " ELSE "")
        \o BlockText("on_cooldown", b.onCooldown)
        \o BlockText("execute", b.execute)
        \o "} "

\* The DSL text of a source: what downloadPluginCode returns for it.
SourceText(src) ==
    "module plugin { "
        \o (IF src.manifest
            THEN "manifest { name " \o Quoted(src.name) \o " scopes ["
                 \o Join([i \in 1..Len(src.scopes) |-> Quoted(src.scopes[i])], ", ")
                 \o "] } "
            ELSE "")
        \o Concat([i \in 1..Len(src.uses) |-> "use " \o src.uses[i] \o " "])
        \o Concat([i \in 1..Len(src.commands) |-> CommandText(src.commands[i])])
        \o Concat([i \in 1..Len(src.buttons) |-> ButtonText(src.buttons[i])])
        \o "}"

(***************************************************************************)
(* The marketplace and the parsers                                         *)
(***************************************************************************)

Guilds == { "g1", "g2" }

\* prisma.marketplaceItem: item id -> status and the source its fileUrl serves.
Marketplace ==
    [ hello |-> [ status |-> "approved", source |-> SrcHello ],
      tickets |-> [ status |-> "approved", source |-> SrcTickets ],
      notes |-> [ status |-> "approved", source |-> SrcDbWrite ],
      importer |-> [ status |-> "approved", source |-> SrcImporter ],
      broken |-> [ status |-> "approved", source |-> SrcNoManifest ],
      draft |-> [ status |-> "pending", source |-> SrcHello ] ]

ItemIds == DOMAIN Marketplace

\* An id no marketplace row has.
UnknownItem == "ghost"

\* parseManifest: the fields the model reads.  The caller checks
\* ManifestFound first: without a manifest block parseManifest throws.
ManifestFound(src) == src.manifest

parseManifest(src) == [ name |-> src.name, scopes |-> src.scopes ]

\* parseParameters: name -> { type, required }, in declaration order.
parseParameters(c) == c.parameters

\* parseCommands: for each command block the handler it registers.  Only
\* usage, parameters, on_command and the cooldown line are read.
parseCommands(src) ==
    [ i \in 1..Len(src.commands) |->
        [ name |-> src.commands[i].name,
          usage |-> src.commands[i].usage,
          parameters |-> parseParameters(src.commands[i]),
          onCommand |-> src.commands[i].onCommand,
          cooldown |-> src.commands[i].cooldown ] ]

\* parseButtonHandlers: for each on_click block the handler it registers.
\* Only execute and the cooldown line are read.
parseButtonHandlers(src) ==
    [ i \in 1..Len(src.buttons) |->
        [ id |-> src.buttons[i].id,
          execute |-> src.buttons[i].execute,
          cooldown |-> src.buttons[i].cooldown ] ]

\* The LoadedPlugin loadInstalledPlugin builds from an installed record.
LoadedPlugin(itemId) ==
    LET src == Marketplace[itemId].source
    IN [ itemId |-> itemId,
         manifest |-> parseManifest(src),
         commands |-> parseCommands(src),
         buttonHandlers |-> parseButtonHandlers(src) ]

\* What validate returns for each item's text, computed once per item.
ItemValidation ==
    [ p \in ItemIds |->
        LET src == Marketplace[p].source
            dslCode == SourceText(src)
        IN validate(dslCode, extractImports(dslCode), parseManifest(src).scopes) ]

(***************************************************************************)
(* Install, enable, disable, uninstall, and the startup load                *)
(***************************************************************************)

\* Map.prototype.set on the keys of an insertion-ordered Map.
MapSet(keys, k) == IF k \in Range(keys) THEN keys ELSE Append(keys, k)

\* Map.prototype.delete on the keys of an insertion-ordered Map.
MapDelete(keys, k) ==
    LET other(x) == x # k IN SelectSeq(keys, other)

\* Array.prototype.findIndex for an item id, 1-based; 0 when absent.
FindIndex(list, itemId) ==
    IF \E i \in 1..Len(list) : list[i].itemId = itemId
    THEN CHOOSE i \in 1..Len(list) :
            /\ list[i].itemId = itemId
            /\ \A j \in 1..(i - 1) : list[j].itemId # itemId
    ELSE 0

\* Array.prototype.splice(idx, 1), idx 1-based.
Splice(list, idx) == SubSeq(list, 1, idx - 1) \o SubSeq(list, idx + 1, Len(list))

\* loadInstalledPlugin: the plugin is parsed and put in the guild's Map.
loadInstalledPlugin(loaded, guildId, itemId) ==
    [ loaded EXCEPT ![guildId] = MapSet(@, itemId) ]

\* What a management call returned: { success, message }, the message split
\* in its fixed text and the list it carries.
Returned(op, guildId, itemId, success, message, detail) ==
    [ kind |-> op, guildId |-> guildId, itemId |-> itemId, success |-> success,
      message |-> message, detail |-> detail ]

Nothing == [ kind |-> "none" ]

\* No call of validate has returned.
NoValidation == << >>

NoInput == [ code |-> "", scopes |-> << >> ]

dispatchUnchanged == << hostWired, cooldowns, clientCooldowns, now >>

validatorUnchanged == << vIn, vOut >>

httpUnchanged == << blockedDomains, requestLimits, httpLogs, inFlight >>

\* requestLimits.maxRequestsPerMinute as the class initialises it.
DefaultRequestsPerMinute == 30

\* requestLimits.maxRequestsPerHour as the class initialises it.
DefaultRequestsPerHour == 200

\* The HTTP fields of a PluginManager that has just been constructed.
InitHttp ==
    /\ blockedDomains = {}
    /\ requestLimits = [ maxRequestsPerMinute |-> DefaultRequestsPerMinute,
                         maxRequestsPerHour |-> DefaultRequestsPerHour ]
    /\ httpLogs = << >>
    /\ inFlight = << >>

\* What installPluginFromMarketplace returns, and whether it installs.
InstallOutcome(guildId, itemId) ==
    IF itemId \notin ItemIds
    THEN Returned("install", guildId, itemId, FALSE, "Plugin not found", << >>)
    ELSE IF Marketplace[itemId].status # "approved"
    THEN Returned("install", guildId, itemId, FALSE, "Not approved", << >>)
    ELSE IF ~ManifestFound(Marketplace[itemId].source)
    THEN Returned("install", guildId, itemId, FALSE, "Failed: Error: No manifest", << >>)
    ELSE IF ~ItemValidation[itemId].valid
    THEN Returned("install", guildId, itemId, FALSE, "Scope validation failed",
                  ItemValidation[itemId].errors)
    ELSE IF FindIndex(installedPlugins[guildId], itemId) # 0
    THEN Returned("install", guildId, itemId, FALSE, "Already installed", << >>)
    ELSE Returned("install", guildId, itemId, TRUE, "Installed", << >>)

\* installPluginFromMarketplace(guildId, itemId)
Install(guildId, itemId) ==
    LET r == InstallOutcome(guildId, itemId)
    IN /\ last' = r
       /\ IF r.success
          THEN /\ installedPlugins' =
                    [ installedPlugins EXCEPT ![guildId] =
                        Append(@, [ itemId |-> itemId, enabled |-> TRUE ]) ]
               /\ loadedPlugins' = loadInstalledPlugin(loadedPlugins, guildId, itemId)
          ELSE UNCHANGED << installedPlugins, loadedPlugins >>
       /\ UNCHANGED << persisted, startupPc, startupQueue >>
       /\ UNCHANGED dispatchUnchanged
       /\ UNCHANGED validatorUnchanged
       /\ UNCHANGED pass
       /\ UNCHANGED running
       /\ UNCHANGED httpUnchanged

\* togglePlugin(guildId, itemId, enabled)
Toggle(guildId, itemId, enabled) ==
    LET idx == FindIndex(installedPlugins[guildId], itemId)
    IN /\ IF idx = 0
          THEN /\ last' = Returned("toggle", guildId, itemId, FALSE, "Not found", << >>)
               /\ UNCHANGED << installedPlugins, loadedPlugins >>
          ELSE /\ last' = Returned("toggle", guildId, itemId, TRUE,
                                     IF enabled THEN "Enabled" ELSE "Disabled", << >>)
               /\ installedPlugins' =
                    [ installedPlugins EXCEPT ![guildId][idx].enabled = enabled ]
               /\ loadedPlugins' =
                    IF enabled
                    THEN loadInstalledPlugin(loadedPlugins, guildId, itemId)
                    ELSE [ loadedPlugins EXCEPT ![guildId] = MapDelete(@, itemId) ]
       /\ UNCHANGED << persisted, startupPc, startupQueue >>
       /\ UNCHANGED dispatchUnchanged
       /\ UNCHANGED validatorUnchanged
       /\ UNCHANGED pass
       /\ UNCHANGED running
       /\ UNCHANGED httpUnchanged

\* uninstallPlugin(guildId, itemId)
Uninstall(guildId, itemId) ==
    LET idx == FindIndex(installedPlugins[guildId], itemId)
    IN /\ IF idx = 0
          THEN /\ last' = Returned("uninstall", guildId, itemId, FALSE, "Not found", << >>)
               /\ UNCHANGED << installedPlugins, loadedPlugins >>
          ELSE /\ last' = Returned("uninstall", guildId, itemId, TRUE, "Uninstalled", << >>)
               /\ installedPlugins' = [ installedPlugins EXCEPT ![guildId] = Splice(@, idx) ]
               /\ loadedPlugins' = [ loadedPlugins EXCEPT ![guildId] = MapDelete(@, itemId) ]
       /\ UNCHANGED << persisted, startupPc, startupQueue >>
       /\ UNCHANGED dispatchUnchanged
       /\ UNCHANGED validatorUnchanged
       /\ UNCHANGED pass
       /\ UNCHANGED running
       /\ UNCHANGED httpUnchanged

\* loadAllInstalledPlugins, its first await: findMany({ enabled: true }).
StartupQuery ==
    /\ startupPc = "query"
    /\ LET enabledRow(row) == row.enabled
       IN startupQueue' = SelectSeq(persisted, enabledRow)
    /\ startupPc' = "loading"
    /\ UNCHANGED << persisted, installedPlugins, loadedPlugins, last >>
    /\ UNCHANGED dispatchUnchanged
    /\ UNCHANGED validatorUnchanged
    /\ UNCHANGED pass
    /\ UNCHANGED running
    /\ UNCHANGED httpUnchanged

\* Whether the startup loop loads a row: the marketplace row exists, the
\* manifest parses and the scopes validate.  Otherwise it goes on to the
\* next row.
StartupLoads(row) ==
    /\ row.itemId \in ItemIds
    /\ ManifestFound(Marketplace[row.itemId].source)
    /\ ItemValidation[row.itemId].valid

\* A loop that ends at the first row that does not load.
StartupLoadNext_abort ==
    /\ startupPc = "loading"
    /\ startupQueue # << >>
    /\ LET row == Head(startupQueue)
       IN IF StartupLoads(row)
          THEN /\ installedPlugins' =
                    [ installedPlugins EXCEPT ![row.guildId] =
                        Append(@, [ itemId |-> row.itemId, enabled |-> row.enabled ]) ]
               /\ loadedPlugins' = loadInstalledPlugin(loadedPlugins, row.guildId, row.itemId)
               /\ startupQueue' = Tail(startupQueue)
          ELSE /\ startupQueue' = << >>
               /\ UNCHANGED << installedPlugins, loadedPlugins >>
    /\ UNCHANGED << persisted, startupPc, last >>
    /\ UNCHANGED dispatchUnchanged
    /\ UNCHANGED validatorUnchanged
    /\ UNCHANGED pass
    /\ UNCHANGED running
    /\ UNCHANGED httpUnchanged

\* loadAllInstalledPlugins, one turn of its loop.
StartupLoadNext ==
    /\ startupPc = "loading"
    /\ startupQueue # << >>
    /\ LET row == Head(startupQueue)
       IN IF StartupLoads(row)
          THEN /\ installedPlugins' =
                    [ installedPlugins EXCEPT ![row.guildId] =
                        Append(@, [ itemId |-> row.itemId, enabled |-> row.enabled ]) ]
               /\ loadedPlugins' = loadInstalledPlugin(loadedPlugins, row.guildId, row.itemId)
          ELSE UNCHANGED << installedPlugins, loadedPlugins >>
    /\ startupQueue' = Tail(startupQueue)
    /\ UNCHANGED << persisted, startupPc, last >>
    /\ UNCHANGED dispatchUnchanged
    /\ UNCHANGED validatorUnchanged
    /\ UNCHANGED pass
    /\ UNCHANGED running
    /\ UNCHANGED httpUnchanged

\* loadAllInstalledPlugins, after the last row.
StartupDone ==
    /\ startupPc = "loading"
    /\ startupQueue = << >>
    /\ startupPc' = "done"
    /\ UNCHANGED << persisted, startupQueue, installedPlugins, loadedPlugins, last >>
    /\ UNCHANGED dispatchUnchanged
    /\ UNCHANGED validatorUnchanged
    /\ UNCHANGED pass
    /\ UNCHANGED running
    /\ UNCHANGED httpUnchanged

(***************************************************************************)
(* The chat platform                                                       *)
(***************************************************************************)

Users == { "u1" }

\* The platform's permission lookup: what a member holds in each guild, and
\* what the bot holds there.
MemberPermissions(guildId, userId) ==
    IF guildId = "g1" THEN { "SEND_MESSAGES" } ELSE { }

BotPermissions(guildId) ==
    IF guildId = "g1" THEN { "MANAGE_CHANNELS", "SEND_MESSAGES" } ELSE { "SEND_MESSAGES" }

\* The message contents members type.
Contents ==
    { "hello there", "?hello", "?ticket create", "?Ticket Create broken printer",
      "?ticket close", "?roll 5", "?roll 5 yes it works", "?roll  x",
      "?roll 7up TRUE go", "?roll x 1 z" }

\* The custom ids of the buttons members click.
ButtonIds == { "open_ticket", "stale_button" }

(***************************************************************************)
(* String and number functions of the dispatcher                            *)
(***************************************************************************)

UpperCase == "ABCDEFGHIJKLMNOPQRSTUVWXYZ"
LowerCase == "abcdefghijklmnopqrstuvwxyz"
Digits == { "0", "1", "2", "3", "4", "5", "6", "7", "8", "9" }

\* String.prototype.toLowerCase
ToLowerCase(t) ==
    LET lower(c) == IF Includes(UpperCase, c) THEN CharAt(LowerCase, IndexOf(UpperCase, c)) ELSE c
    IN Concat([i \in 1..Len(t) |-> lower(CharAt(t, i))])

\* String.prototype.startsWith
StartsWith(t, prefix) == Len(t) >= Len(prefix) /\ SubSeq(t, 1, Len(prefix)) = prefix

\* String.prototype.slice(n)
Slice(t, n) == SubSeq(t, n + 1, Len(t))

\* String.prototype.split(sep), sep one character.
RECURSIVE Split(_, _)
Split(t, sep) ==
    LET at == IndexOf(t, sep)
    IN IF at = 0 THEN << t >>
       ELSE << SubSeq(t, 1, at - 1) >> \o Split(SubSeq(t, at + 1, Len(t)), sep)

\* The number a string of digits writes.
RECURSIVE DigitsValue(_)
DigitsValue(t) ==
    IF t = "" THEN 0
    ELSE 10 * DigitsValue(SubSeq(t, 1, Len(t) - 1))
            + (CHOOSE d \in 0..9 : ToString(d) = CharAt(t, Len(t)))

\* parseInt: an optional sign and the leading digits; NaN without a digit.
ParseInt(t) ==
    LET signed == Len(t) > 0 /\ CharAt(t, 1) \in { "-", "+" }
        from == IF signed THEN 2 ELSE 1
        to == SkipWhile(t, from, Digits)
        magnitude == DigitsValue(SubSeq(t, from, to - 1))
    IN IF to = from THEN [ nan |-> TRUE ]
       ELSE [ nan |-> FALSE,
              value |-> IF signed /\ CharAt(t, 1) = "-" THEN 0 - magnitude ELSE magnitude ]

\* JavaScript values of the parameters object.
Undefined == [ t |-> "undefined" ]
Str(v) == [ t |-> "string", v |-> v ]
Num(v) == [ t |-> "number", v |-> v ]
Bool(v) == [ t |-> "boolean", v |-> v ]

(***************************************************************************)
(* executeCode and the dispatchers                                         *)
(***************************************************************************)

\* The loaded form of each item.
Plugin == [ p \in ItemIds |-> LoadedPlugin(p) ]

\* Map.prototype.has and get on a plugin's command table.
CommandsHas(plugin, name) ==
    \E i \in 1..Len(plugin.commands) : plugin.commands[i].name = name

CommandsGet(plugin, name) ==
    plugin.commands[CHOOSE i \in 1..Len(plugin.commands) :
                        /\ plugin.commands[i].name = name
                        /\ \A j \in (i + 1)..Len(plugin.commands) :
                                plugin.commands[j].name # name]

\* Map.prototype.has and get on a plugin's button table.
ButtonsHas(plugin, id) ==
    \E i \in 1..Len(plugin.buttonHandlers) : plugin.buttonHandlers[i].id = id

ButtonsGet(plugin, id) ==
    plugin.buttonHandlers[CHOOSE i \in 1..Len(plugin.buttonHandlers) :
                            /\ plugin.buttonHandlers[i].id = id
                            /\ \A j \in (i + 1)..Len(plugin.buttonHandlers) :
                                    plugin.buttonHandlers[j].id # id]

\* The smallest element of a set of positions; 0 for the empty set.
First(positions) ==
    IF positions = { } THEN 0 ELSE CHOOSE i \in positions : \A j \in positions : i <= j

\* The position in a guild's Map of the first plugin a for..of loop finds
\* with the command; 0 when it finds none.
FirstWithCommand(guildPlugins, name) ==
    First({ i \in 1..Len(guildPlugins) : CommandsHas(Plugin[guildPlugins[i]], name) })

\* The position in a guild's Map of the first plugin a for..of loop finds
\* with the button id; 0 when it finds none.
FirstWithButton(guildPlugins, id) ==
    First({ i \in 1..Len(guildPlugins) : ButtonsHas(Plugin[guildPlugins[i]], id) })

\* executeCode(plugin, code, context): nothing for an empty code; otherwise
\* the body runs in the plugin's sandbox.  The run is recorded with the
\* caller, the handler and the host operations its sandbox calls perform.
executeCode(by, itemId, handler, section, code) ==
    IF code = NoBody THEN << >>
    ELSE << [ by |-> by, itemId |-> itemId, handler |-> handler, section |-> section,
              ops |-> Flatten([i \in 1..Len(code) |->
                        [j \in 1..Len(code[i].calls) |-> SandboxCall(code[i].calls[j])]]) ] >>

\* handleCommand: the loop that binds the tokens to the handler's parameters
\* in declaration order, from token argIndex (0-based) on.
RECURSIVE BindParameters(_, _, _)
BindParameters(defs, args, argIndex) ==
    IF defs = << >> THEN << >>
    ELSE LET def == Head(defs)
             rest == Tail(defs)
         IN IF argIndex < Len(args)
            THEN LET argValue == args[argIndex + 1]
                 IN IF def.type = "string"
                    THEN << [ key |-> def.name,
                              value |-> Str(Join(SubSeq(args, argIndex + 1, Len(args)), " ")) ] >>
                            \o BindParameters(rest, args, Len(args))
                    ELSE IF def.type = "int"
                    THEN << [ key |-> def.name,
                              value |-> IF ParseInt(argValue).nan
                                        THEN Str(argValue)
                                        ELSE Num(ParseInt(argValue).value) ] >>
                            \o BindParameters(rest, args, argIndex + 1)
                    ELSE IF def.type = "bool"
                    THEN << [ key |-> def.name,
                              value |-> Bool(ToLowerCase(argValue) = "true" \/ argValue = "1") ] >>
                            \o BindParameters(rest, args, argIndex + 1)
                    ELSE << [ key |-> def.name, value |-> Str(argValue) ] >>
                            \o BindParameters(rest, args, argIndex + 1)
            ELSE IF def.required
            THEN << [ key |-> def.name, value |-> Undefined ] >>
                    \o BindParameters(rest, args, argIndex)
            ELSE BindParameters(rest, args, argIndex)

\* parameters[key]
ParameterValue(parameters, key) ==
    IF \E i \in 1..Len(parameters) : parameters[i].key = key
    THEN parameters[CHOOSE i \in 1..Len(parameters) :
                        /\ parameters[i].key = key
                        /\ \A j \in (i + 1)..Len(parameters) : parameters[j].key # key].value
    ELSE Undefined

\* A missingParams that only looks for the empty string.
MissingParams_emptyOnly(defs, parameters) ==
    LET absent(def) ==
            LET value == ParameterValue(parameters, def.name)
            IN def.required /\ value.t = "string" /\ value.v = ""
        missing == Filter(defs, absent)
    IN [i \in 1..Len(missing) |-> missing[i].name]

\* missingParams: the required parameters left undefined, null or ''.
MissingParams(defs, parameters) ==
    LET absent(def) ==
            LET value == ParameterValue(parameters, def.name)
            IN def.required /\ (value.t = "undefined" \/ (value.t = "string" /\ value.v = ""))
        missing == Filter(defs, absent)
    IN [i \in 1..Len(missing) |-> missing[i].name]

\* What a dispatcher leaves when it returns before any handler is chosen.
NoMatch ==
    [ commandName |-> "", itemId |-> "", args |-> << >>, parameters |-> << >>,
      reply |-> << >>, ran |-> << >> ]

\* A handleCommand that binds the parameters from the second token on.
RunCommand_skipFirst(itemId, commandName, handler, args) ==
    LET parameters == BindParameters(handler.parameters, args, 1)
        missingParams == MissingParams(handler.parameters, parameters)
    IN [ commandName |-> commandName, itemId |-> itemId, args |-> args,
         parameters |-> parameters,
         reply |-> IF Len(missingParams) > 0
                   THEN << [ missing |-> missingParams, usage |-> handler.usage ] >>
                   ELSE << >>,
         ran |-> IF Len(missingParams) > 0 THEN << >>
                 ELSE executeCode("handleCommand", itemId, commandName,
                                  "on_command", handler.onCommand) ]

\* handleCommand, once a plugin with the command is found: the parameters
\* are bound, and either the usage reply is sent or the body is executed.
RunCommand(itemId, commandName, handler, args) ==
    LET parameters == BindParameters(handler.parameters, args, 0)
        missingParams == MissingParams(handler.parameters, parameters)
    IN [ commandName |-> commandName, itemId |-> itemId, args |-> args,
         parameters |-> parameters,
         reply |-> IF Len(missingParams) > 0
                   THEN << [ missing |-> missingParams, usage |-> handler.usage ] >>
                   ELSE << >>,
         ran |-> IF Len(missingParams) > 0 THEN << >>
                 ELSE executeCode("handleCommand", itemId, commandName,
                                  "on_command", handler.onCommand) ]

\* handleCommand, the second loop: the first plugin of the guild that has
\* the command name handles it.
FindCommand(guildPlugins, commandName, args) ==
    LET idx == FirstWithCommand(guildPlugins, commandName)
    IN IF idx = 0
       THEN [ NoMatch EXCEPT !.commandName = commandName, !.args = args ]
       ELSE RunCommand(guildPlugins[idx], commandName,
                       CommandsGet(Plugin[guildPlugins[idx]], commandName), args)

\* handleCommand, from the tokens of the content on: the first token in
\* lower case is the command name, unless some plugin of the guild has the
\* command "first.second".
ResolveCommand(guildPlugins, commandName, args) ==
    LET potentialSubcommand == commandName \o "." \o ToLowerCase(Head(args))
    IN IF commandName = "" THEN NoMatch
       ELSE IF Len(args) > 0 /\ FirstWithCommand(guildPlugins, potentialSubcommand) # 0
       THEN FindCommand(guildPlugins, potentialSubcommand, Tail(args))
       ELSE FindCommand(guildPlugins, commandName, args)

\* args.shift()?.toLowerCase() and the args left, for content.slice(1).split(' ')
ShiftCommand(guildPlugins, tokens) ==
    ResolveCommand(guildPlugins, ToLowerCase(Head(tokens)), Tail(tokens))

\* handleCommand(message) for a message of a guild whose Map of loaded
\* plugins is guildPlugins, after the listeners of the logic blocks.
handleCommand(guildPlugins, content) ==
    IF ~StartsWith(content, "?") THEN NoMatch
    ELSE ShiftCommand(guildPlugins, Split(Slice(content, 1), " "))

\* The orders a guild's Map of loaded plugins can hold: the items a load
\* accepts, each at most once.
PluginOrders ==
    LET loadable == { p \in ItemIds : StartupLoads([ itemId |-> p ]) }
    IN SeqsNoRepeat(loadable, Cardinality(loadable))

\* A function as the table of its values, so that each value is computed
\* once.
Tabulated(f) == f @@ [ x \in { } |-> x ]

\* handleCommand for every Map order and every content.
HandleCommandResults ==
    Tabulated([ guildPlugins \in PluginOrders, content \in Contents |->
                    handleCommand(guildPlugins, content) ])

\* PluginManager.handleButton(interaction)
handleButton(guildId, customId) ==
    LET plugins == loadedPlugins[guildId]
        idx == FirstWithButton(plugins, customId)
    IN IF idx = 0 THEN [ itemId |-> "", ran |-> << >> ]
       ELSE [ itemId |-> plugins[idx],
              ran |-> executeCode("handleButton", plugins[idx], customId, "execute",
                                  ButtonsGet(Plugin[plugins[idx]], customId).execute) ]

\* Map.prototype.get(key) || 0 on a cooldown Map.
ExpirationTime(map, key) == IF key \in DOMAIN map THEN map[key] ELSE 0

\* Map.prototype.set on a cooldown Map.
CooldownSet(map, key, expiry) ==
    [ k \in DOMAIN map \cup { key } |-> IF k = key THEN expiry ELSE map[k] ]

\* Date.now()
DateNow == now * 1000

\* The host's button interaction handler: first plugin with the button id,
\* the cooldown check on (client as any).cooldowns, then executePluginCode.
hostButtonHandler(guildId, userId, buttonId) ==
    LET plugins == loadedPlugins[guildId]
        idx == FirstWithButton(plugins, buttonId)
        handler == ButtonsGet(Plugin[plugins[idx]], buttonId)
        cooldownKey == "button_" \o buttonId \o "_" \o userId
        onCooldown == handler.cooldown # 0
                        /\ DateNow < ExpirationTime(clientCooldowns, cooldownKey)
    IN IF idx = 0
       THEN [ itemId |-> "", reply |-> << >>, ran |-> << >>, cooldowns |-> clientCooldowns ]
       ELSE IF onCooldown
       THEN [ itemId |-> plugins[idx], reply |-> << "This button is on cooldown" >>,
              ran |-> << >>, cooldowns |-> clientCooldowns ]
       ELSE [ itemId |-> plugins[idx], reply |-> << >>,
              ran |-> executeCode("buttonHandler", plugins[idx], buttonId, "execute",
                                  handler.execute),
              cooldowns |-> IF handler.cooldown # 0
                            THEN CooldownSet(clientCooldowns, cooldownKey,
                                             DateNow + handler.cooldown * 1000)
                            ELSE clientCooldowns ]

Row(guildId, itemId, enabled) ==
    [ guildId |-> guildId, itemId |-> itemId, enabled |-> enabled ]

\* The tables of installed-plugin rows the process may start over.
PersistedTables ==
    { << >>,
      << Row("g1", "hello", TRUE), Row("g1", "tickets", TRUE) >>,
      << Row("g1", "notes", TRUE), Row("g2", "tickets", FALSE), Row("g2", "hello", TRUE) >>,
      << Row("g1", "broken", TRUE), Row("g1", "ghost", TRUE), Row("g2", "tickets", TRUE) >> }

\* An empty Map of cooldown keys.
NoCooldowns == [ k \in { } |-> 0 ]

\* The items an install accepts.
Installable(itemId) ==
    /\ itemId \in ItemIds
    /\ Marketplace[itemId].status = "approved"
    /\ StartupLoads([ itemId |-> itemId ])

\* What enable, disable and uninstall are called with: the items an install
\* accepts, and one id that is never installed.
ManagedItems == { p \in ItemIds : Installable(p) } \cup { UnknownItem }

\* The guild whose administrators issue management calls while the process
\* runs; the other guilds run what the persisted table holds for them.
ManagedGuilds == { "g1" }

\* The manager after its constructor returned: empty tables, the startup
\* load not yet past its first await.
InitManager ==
    /\ startupPc = "query"
    /\ startupQueue = << >>
    /\ installedPlugins = [ g \in Guilds |-> << >> ]
    /\ loadedPlugins = [ g \in Guilds |-> << >> ]
    /\ cooldowns = NoCooldowns
    /\ clientCooldowns = NoCooldowns
    /\ now = 0
    /\ last = Nothing
    /\ InitHttp
    /\ running = << >>
    /\ pass = << >>

InitLife ==
    /\ InitManager
    /\ persisted \in PersistedTables
    /\ hostWired = FALSE
    /\ vIn = NoInput
    /\ vOut = NoValidation

NextLife ==
    \/ \E g \in ManagedGuilds, p \in ItemIds \cup { UnknownItem } : Install(g, p)
    \/ \E g \in ManagedGuilds, p \in ManagedItems, en \in BOOLEAN : Toggle(g, p, en)
    \/ \E g \in ManagedGuilds, p \in ManagedItems : Uninstall(g, p)
    \/ StartupQuery
    \/ StartupLoadNext
    \/ StartupDone

\* The management calls and the startup load over a persisted table.
SpecLife == InitLife /\ [][NextLife]_vars

(***************************************************************************)
(* Chat events                                                             *)
(***************************************************************************)

\* How long the clock runs, in seconds.
MaxTime == 2

managerUnchanged == << persisted, startupPc, startupQueue, installedPlugins, loadedPlugins >>

\* The command of a plugin as its source declares it.
DeclaredCommand(itemId, name) ==
    LET cs == Marketplace[itemId].source.commands
    IN cs[CHOOSE i \in 1..Len(cs) : cs[i].name = name /\ \A j \in (i + 1)..Len(cs) : cs[j].name # name]

\* The button handler of a plugin as its source declares it.
DeclaredButton(itemId, id) ==
    LET bs == Marketplace[itemId].source.buttons
    IN bs[CHOOSE i \in 1..Len(bs) : bs[i].id = id /\ \A j \in (i + 1)..Len(bs) : bs[j].id # id]

\* The event before this one was the same member's use of the same handler,
\* its main body ran, and the cooldown the handler declares has not elapsed
\* since.
WithinCooldown(kind, guildId, userId, itemId, key, seconds) ==
    /\ itemId # ""
    /\ seconds > 0
    /\ last.kind = kind
    /\ last.guildId = guildId
    /\ last.userId = userId
    /\ last.itemId = itemId
    /\ last.key = key
    /\ \E i \in 1..Len(last.ran) : last.ran[i].section \in { "on_command", "execute" }
    /\ DateNow < last.time * 1000 + seconds * 1000

\* The logic block, the top-level functions and the custom event blocks of
\* the plugin sources, in the order of the text.  A listener is written
\* `if <pattern> -> { <action> }`; its pattern is kept as the test it makes
\* on message.content.
LogicSource ==
    [ p \in ItemIds |->
        CASE p = "hello" ->
               [ listeners |-> <<
                   [ test |-> "contains", arg |-> "hello", action |-> << SendHello >> ],
                   [ test |-> "length", arg |-> "", action |-> << SendWait >> ] >>,
                 triggers |-> << [ name |-> "ticket_created", action |-> << SendHello >> ] >>,
                 functions |-> << >>,
                 events |-> << [ name |-> "ticket_created", code |-> << SendHello >> ] >> ]
          [] p = "tickets" ->
               [ listeners |-> <<
                   [ test |-> "to_lower.contains", arg |-> "ticket",
                     action |-> << SendWait >> ],
                   [ test |-> "undefined.contains", arg |-> "ticket",
                     action |-> << SendDenied >> ],
                   [ test |-> "starts_with", arg |-> "?", action |-> << SendHello >> ] >>,
                 triggers |-> <<
                   [ name |-> "special_event", action |-> << SendHello >> ],
                   [ name |-> "ticket_created", action |-> << SendWait >> ] >>,
                 functions |-> << [ name |-> "close_ticket_logic",
                                    body |-> << CloseChannel >> ] >>,
                 events |-> <<
                   [ name |-> "trigger_special_event", code |-> << SendHello >> ],
                   [ name |-> "ticket_created", code |-> << SendWait >> ],
                   [ name |-> "ticket_created", code |-> << SendHello >> ] >> ]
          [] OTHER -> [ listeners |-> << >>, triggers |-> << >>,
                        functions |-> << >>, events |-> << >> ] ]

\* parseLogicHandlers: plugin.logicHandlers, the on_listen handlers first
\* and the on_trigger handlers after them.
parseLogicHandlers(itemId) ==
    [ j \in 1..Len(LogicSource[itemId].listeners) |->
        [ type |-> "on_listen", pattern |-> LogicSource[itemId].listeners[j],
          action |-> LogicSource[itemId].listeners[j].action ] ]
    \o [ j \in 1..Len(LogicSource[itemId].triggers) |->
        [ type |-> "on_trigger", pattern |-> LogicSource[itemId].triggers[j].name,
          action |-> LogicSource[itemId].triggers[j].action ] ]

\* plugin.vm.run of a listener's pattern after the DSL replacements
\* (.contains -> .includes, .starts_with -> .startsWith, .to_lower() ->
\* .toLowerCase()): true, false, a value that is no boolean, or an exception.
EvalPattern(pattern, content) ==
    CASE pattern.test = "contains" ->
           IF Includes(content, pattern.arg) THEN "true" ELSE "false"
      [] pattern.test = "to_lower.contains" ->
           IF Includes(ToLowerCase(content), pattern.arg) THEN "true" ELSE "false"
      [] pattern.test = "starts_with" ->
           IF StartsWith(content, pattern.arg) THEN "true" ELSE "false"
      [] pattern.test = "length" -> "number"
      [] OTHER -> "error"

\* The inner loop of handleLogicListeners for one plugin: each on_listen
\* handler has its pattern evaluated, and its action is executed when the
\* result is true.
ListenersOf(itemId, content) ==
    Flatten([ j \in 1..Len(parseLogicHandlers(itemId)) |->
        IF parseLogicHandlers(itemId)[j].type # "on_listen" THEN << >>
        ELSE << [ by |-> "handleLogicListeners", itemId |-> itemId,
                  handler |-> ToString(j), section |-> "pattern",
                  result |-> EvalPattern(parseLogicHandlers(itemId)[j].pattern, content) ] >>
             \o IF EvalPattern(parseLogicHandlers(itemId)[j].pattern, content) = "true"
                THEN executeCode("handleLogicListeners", itemId, ToString(j), "action",
                                 parseLogicHandlers(itemId)[j].action)
                ELSE << >> ])

\* A handleLogicListeners that leaves prefixed messages to the commands.
handleLogicListeners_unprefixed(guildPlugins, content) ==
    IF StartsWith(content, "?") THEN << >>
    ELSE Flatten([ i \in 1..Len(guildPlugins) |-> ListenersOf(guildPlugins[i], content) ])

\* handleLogicListeners(message): the listeners of every loaded plugin of
\* the guild, in load order.
handleLogicListeners(guildPlugins, content) ==
    Flatten([ i \in 1..Len(guildPlugins) |-> ListenersOf(guildPlugins[i], content) ])

\* handleLogicListeners for each Map of loaded plugins and each message.
ListenerResults ==
    Tabulated([ guildPlugins \in PluginOrders, content \in Contents |->
                  handleLogicListeners(guildPlugins, content) ])

\* client.emit('messageCreate', msg) for a message of a member of a guild:
\* the manager's listener runs handleCommand, which runs the listeners of
\* the logic blocks and then dispatches the command.
MessageCreate(guildId, userId, content) ==
    LET out == HandleCommandResults[loadedPlugins[guildId], content]
    IN /\ last' =
            [ kind |-> "message", guildId |-> guildId, userId |-> userId,
              content |-> content, time |-> now, plugins |-> loadedPlugins[guildId],
              trace |-> ListenerResults[loadedPlugins[guildId], content] \o out.ran,
              key |-> out.commandName, itemId |-> out.itemId, args |-> out.args,
              parameters |-> out.parameters, reply |-> out.reply, ran |-> out.ran,
              repeat |-> /\ out.itemId # ""
                         /\ WithinCooldown("message", guildId, userId, out.itemId,
                                out.commandName,
                                DeclaredCommand(out.itemId, out.commandName).cooldown) ]
       /\ UNCHANGED managerUnchanged
       /\ UNCHANGED dispatchUnchanged
       /\ UNCHANGED validatorUnchanged
       /\ UNCHANGED pass
       /\ UNCHANGED running
       /\ UNCHANGED httpUnchanged

\* client.emit('interactionCreate', i) for a button click: the manager's
\* listener runs handleButton, and the host's handler runs after it when the
\* host registered it.
InteractionCreate(guildId, userId, customId) ==
    LET byManager == handleButton(guildId, customId)
        byHost == IF hostWired
                  THEN hostButtonHandler(guildId, userId, customId)
                  ELSE [ itemId |-> "", reply |-> << >>, ran |-> << >>,
                         cooldowns |-> clientCooldowns ]
    IN /\ last' =
            [ kind |-> "click", guildId |-> guildId, userId |-> userId,
              time |-> now, plugins |-> loadedPlugins[guildId],
              key |-> customId, itemId |-> byManager.itemId,
              reply |-> byHost.reply, ran |-> byManager.ran \o byHost.ran,
              repeat |-> /\ byManager.itemId # ""
                         /\ WithinCooldown("click", guildId, userId, byManager.itemId,
                                customId,
                                DeclaredButton(byManager.itemId, customId).cooldown) ]
       /\ clientCooldowns' = byHost.cooldowns
       /\ UNCHANGED managerUnchanged
       /\ UNCHANGED << hostWired, cooldowns, now >>
       /\ UNCHANGED validatorUnchanged
       /\ UNCHANGED pass
       /\ UNCHANGED running
       /\ UNCHANGED httpUnchanged

\* A second passes.
Tick ==
    /\ now < MaxTime
    /\ now' = now + 1
    /\ UNCHANGED managerUnchanged
    /\ UNCHANGED << hostWired, cooldowns, clientCooldowns, last >>
    /\ UNCHANGED validatorUnchanged
    /\ UNCHANGED pass
    /\ UNCHANGED running
    /\ UNCHANGED httpUnchanged

\* The tables of installed-plugin rows a deployment with chat traffic starts
\* over.
DeployedTables ==
    { << Row("g2", "tickets", TRUE) >> }

\* The manager is constructed by the host; the host may register its own
\* button handler on the client as well.
Init ==
    /\ InitManager
    /\ persisted \in DeployedTables
    /\ hostWired \in BOOLEAN
    /\ vIn = NoInput
    /\ vOut = NoValidation

Next ==
    \/ \E g \in ManagedGuilds, p \in ManagedItems : Install(g, p)
    \/ \E g \in ManagedGuilds, p \in ManagedItems : Uninstall(g, p)
    \/ StartupQuery
    \/ StartupLoadNext
    \/ StartupDone
    \/ \E g \in Guilds, u \in Users, c \in Contents : MessageCreate(g, u, c)
    \/ \E g \in Guilds, u \in Users, b \in ButtonIds : InteractionCreate(g, u, b)
    \/ Tick

\* The manager in a running bot: management calls, the startup load and
\* chat events.
Spec == Init /\ [][Next]_vars


(***************************************************************************)
(* Properties of the management calls and the startup load                  *)
(***************************************************************************)

\* The manager holds an installed record of item p in guild g with this flag.
HasRecord(g, p, enabled) ==
    \E i \in 1..Len(installedPlugins[g]) :
        /\ installedPlugins[g][i].itemId = p
        /\ installedPlugins[g][i].enabled = enabled

IsLoaded(g, p) == p \in Range(loadedPlugins[g])

\* For each item, the scopes some construct of the table occurring in the
\* item's text requires and the item's manifest does not declare.
ItemUndeclaredScopes ==
    [ p \in ItemIds |->
        LET src == Marketplace[p].source
            dslCode == SourceText(src)
        IN { sc \in AllScopes :
                /\ sc \notin Range(src.scopes)
                /\ \E i \in 1..Len(MODULE_REQUIREMENTS) :
                        /\ sc \in Range(MODULE_REQUIREMENTS[i][2])
                        /\ Includes(dslCode, MODULE_REQUIREMENTS[i][1]) } ]

UndeclaredScopes(p) == ItemUndeclaredScopes[p]

\* C1: for every guild g and plugin p, loadedPlugins has an entry for (g, p)
\* if and only if the manager holds an installed record for (g, p) whose
\* enabled flag is true, whatever install, toggle, uninstall and startup
\* load steps came before.
C1_LoadedIffEnabled ==
    \A g \in Guilds, p \in ItemIds : IsLoaded(g, p) <=> HasRecord(g, p, TRUE)

\* C2, the tables: an item whose text uses a construct requiring a scope its
\* manifest does not declare is in no guild's installed list and in no
\* guild's loaded table.
C2_NeverInTables ==
    \A g \in Guilds, p \in ItemIds :
        UndeclaredScopes(p) # { } =>
            /\ ~IsLoaded(g, p)
            /\ ~HasRecord(g, p, TRUE)
            /\ ~HasRecord(g, p, FALSE)

\* C2, the return value: an install of an approved item with a manifest and
\* an undeclared required scope returned success = false and a message that
\* names every such scope.
C2_InstallRefused ==
    ( /\ last.kind = "install"
      /\ last.itemId \in ItemIds
      /\ Marketplace[last.itemId].status = "approved"
      /\ ManifestFound(Marketplace[last.itemId].source)
      /\ UndeclaredScopes(last.itemId) # { } )
        => /\ ~last.success
           /\ last.message = "Scope validation failed"
           /\ Len(last.detail) = 1
           /\ UndeclaredScopes(last.itemId) \subseteq Range(last.detail[1])

\* C2, the step: a call that returns success = false leaves the installed
\* and the loaded tables as they were.
C2_RefusalAddsNothing ==
    ( /\ last' # last
      /\ last'.kind = "install"
      /\ ~last'.success )
        => UNCHANGED << installedPlugins, loadedPlugins >>

\* C2: a plugin whose source uses a construct requiring a scope its manifest
\* does not declare is never loaded: the install returns success = false
\* with a message naming the missing scope and adds nothing to the installed
\* or loaded tables, and the startup load skips the plugin.
C2_UndeclaredScopeNeverLoaded ==
    /\ [](C2_NeverInTables /\ C2_InstallRefused)
    /\ [][C2_RefusalAddsNothing]_vars

\* C2's case: the startup load went past an enabled persisted row of the
\* Scenario B plugin, and an install of it was then refused.
C2_Witness ==
    /\ startupPc = "done"
    /\ \E i \in 1..Len(persisted) :
            /\ persisted[i].itemId = "notes"
            /\ persisted[i].enabled
            /\ UndeclaredScopes(persisted[i].itemId) = { "db.write" }
    /\ last.kind = "install"
    /\ last.itemId = "notes"
    /\ ~last.success
    /\ IsLoaded("g1", "hello")

\* The source of an item without its use statements.
WithoutImports(p) == [ Marketplace[p].source EXCEPT !.uses = << >> ]

\* The items with use statements that all name something the rest of the
\* text never mentions, and whose text validates once they are removed.
ItemsWithUnusedImportsOnly ==
    { p \in ItemIds :
        LET src == Marketplace[p].source
            rest == SourceText(WithoutImports(p))
        IN /\ src.uses # << >>
           /\ \A i \in 1..Len(src.uses) : ~Includes(rest, src.uses[i])
           /\ validate(rest, << >>, src.scopes).valid }

\* C5: a use statement whose construct the source never otherwise uses
\* yields a warning only: an approved plugin that validates without its use
\* statements is not refused by an install because of them.
C5_UnusedImportOnlyWarns ==
    ( /\ last.kind = "install"
      /\ last.itemId \in ItemIds
      /\ Marketplace[last.itemId].status = "approved"
      /\ ManifestFound(Marketplace[last.itemId].source)
      /\ last.itemId \in ItemsWithUnusedImportsOnly )
        => last.message \in { "Installed", "Already installed" }

(***************************************************************************)
(* Properties of the dispatch of chat events                                *)
(***************************************************************************)

\* The last thing that happened is a message that a command of a loaded
\* plugin matched.
CommandMatched == last.kind = "message" /\ last.itemId # ""

\* The last thing that happened is a click that a button handler of a
\* loaded plugin matched.
ButtonMatched == last.kind = "click" /\ last.itemId # ""

\* The sections of handler bodies the last event ran, in order.
SectionsRun == [ i \in 1..Len(last.ran) |-> last.ran[i].section ]

\* C3: a loaded plugin performs a scope-guarded host operation only if its
\* manifest declares the scope MODULE_REQUIREMENTS assigns to the operation,
\* whatever handle the operation is called through.
C3_OperationsWithinScopes ==
    last.kind \in { "message", "click" } =>
        \A i \in 1..Len(last.ran) :
            \A j \in 1..Len(last.ran[i].ops) :
                OperationScope(last.ran[i].ops[j])
                    \in Range(Marketplace[last.ran[i].itemId].source.scopes)

\* How many parameters the command declares as required.
RequiredCount(command) ==
    Cardinality({ i \in 1..Len(command.parameters) : command.parameters[i].required })

\* C6: a matched command invoked with fewer positional tokens than it has
\* required parameters gets the missing-parameter reply with the command's
\* usage string, and its on_command body is not executed.
C6_MissingParameterReply ==
    ( /\ CommandMatched
      /\ Len(last.args) < RequiredCount(DeclaredCommand(last.itemId, last.key)) )
        => /\ Len(last.reply) = 1
           /\ last.reply[1].usage = DeclaredCommand(last.itemId, last.key).usage
           /\ last.reply[1].missing # << >>
           /\ last.ran = << >>

\* C6's case: Scenario C, a command with one required string parameter
\* invoked with no token after its name.
C6_Witness ==
    /\ CommandMatched
    /\ last.content = "?ticket create"
    /\ last.itemId = "tickets"
    /\ last.key = "ticket.create"
    /\ last.args = << >>
    /\ last.reply = << [ missing |-> << "reason" >>, usage |-> "?ticket create <reason>" ] >>
    /\ last.ran = << >>

\* The body one section of a declared command holds.
DeclaredBody(command, section) ==
    CASE section = "on_permission_denied bot_permissions" -> command.onPermissionDeniedBot
      [] section = "on_permission_denied user_permissions" -> command.onPermissionDeniedUser
      [] section = "on_cooldown" -> command.onCooldown
      [] section = "on_command" -> command.onCommand

\* C7: a command declared with a cooldown of n seconds and invoked twice by
\* the same user in the same guild within n seconds does not run its
\* on_command body the second time; the second invocation runs on_cooldown
\* if it is declared and nothing otherwise.
C7_CooldownDeniesSecondCommand ==
    ( CommandMatched /\ last.reply = << >> /\ last.repeat )
        => SectionsRun =
             IF DeclaredCommand(last.itemId, last.key).onCooldown = NoBody
             THEN << >> ELSE << "on_cooldown" >>

\* C8: for a matched command the bot's permissions are checked, then the
\* user's, then the cooldown; the main body runs only if all three pass,
\* and when one fails the denial body of the first failing check runs if it
\* is declared, and nothing otherwise.
C8_ChecksBeforeMainBody ==
    ( CommandMatched /\ last.reply = << >> )
        => LET command == DeclaredCommand(last.itemId, last.key)
               section ==
                   IF ~(Range(command.botPermissions) \subseteq BotPermissions(last.guildId))
                   THEN "on_permission_denied bot_permissions"
                   ELSE IF ~(Range(command.userPermissions)
                                \subseteq MemberPermissions(last.guildId, last.userId))
                   THEN "on_permission_denied user_permissions"
                   ELSE IF last.repeat THEN "on_cooldown"
                   ELSE "on_command"
           IN SectionsRun =
                IF DeclaredBody(command, section) = NoBody THEN << >> ELSE << section >>

\* C9: a button handler declared with a cooldown and clicked twice within
\* the cooldown by the same user runs its execute body for the first click
\* only: no registered dispatcher runs execute for the second click.
C9_CooldownDeniesSecondClick ==
    ( ButtonMatched /\ last.repeat )
        => \A i \in 1..Len(last.ran) : last.ran[i].section # "execute"

\* The command name a message resolves to among the plugins of its guild:
\* the two-token name when some plugin has it, else the first token.
ChosenName(plugins, content) ==
    LET tokens == Split(Slice(content, 1), " ")
        base == ToLowerCase(tokens[1])
        twoToken == IF Len(tokens) > 1 THEN base \o "." \o ToLowerCase(tokens[2]) ELSE ""
    IN IF /\ Len(tokens) > 1
          /\ \E i \in 1..Len(plugins) :
                \E k \in 1..Len(Marketplace[plugins[i]].source.commands) :
                    Marketplace[plugins[i]].source.commands[k].name = twoToken
       THEN twoToken ELSE base

\* item is the first plugin in load order that declares the command.
FirstInLoadOrderWithCommand(plugins, item, name) ==
    \E i \in 1..Len(plugins) :
        /\ plugins[i] = item
        /\ \E k \in 1..Len(Marketplace[item].source.commands) :
                Marketplace[item].source.commands[k].name = name
        /\ \A j \in 1..(i - 1) :
              \A k \in 1..Len(Marketplace[plugins[j]].source.commands) :
                    Marketplace[plugins[j]].source.commands[k].name # name

\* item is the first plugin in load order that declares the button id.
FirstInLoadOrderWithButton(plugins, item, id) ==
    \E i \in 1..Len(plugins) :
        /\ plugins[i] = item
        /\ \E k \in 1..Len(Marketplace[item].source.buttons) :
                Marketplace[item].source.buttons[k].id = id
        /\ \A j \in 1..(i - 1) :
              \A k \in 1..Len(Marketplace[plugins[j]].source.buttons) :
                    Marketplace[plugins[j]].source.buttons[k].id # id

\* C10: for one command message or one button click exactly one handler
\* body is executed, exactly once.  For a command it is the body of the
\* two-token name if some loaded plugin of the guild has it and of the
\* single-token name otherwise, in the first plugin in load order with that
\* name; for a button it is the body of the first plugin in load order with
\* the button id.
C10_ExactlyOneBodyOnce ==
    /\ ( CommandMatched /\ last.reply = << >> )
          => /\ Len(last.ran) = 1
             /\ last.ran[1].itemId = last.itemId
             /\ last.ran[1].handler = ChosenName(last.plugins, last.content)
             /\ FirstInLoadOrderWithCommand(last.plugins, last.itemId,
                                            ChosenName(last.plugins, last.content))
    /\ ButtonMatched
          => /\ Len(last.ran) = 1
             /\ last.ran[1].itemId = last.itemId
             /\ last.ran[1].handler = last.key
             /\ FirstInLoadOrderWithButton(last.plugins, last.itemId, last.key)

\* The position of the first string parameter of a declaration, one past
\* the last parameter when there is none.
FirstString(defs) ==
    LET at == { i \in 1..Len(defs) : defs[i].type = "string" }
    IN IF at = {} THEN Len(defs) + 1 ELSE CHOOSE i \in at : \A j \in at : i <= j

\* The spellings of a boolean.
BoolTokens == { "true", "false", "1", "0" }

\* The value a single token gives an int or bool parameter; softBool says
\* whether a token that spells no boolean is kept as a string.
TokenValue(type, token, softBool) ==
    IF type = "int"
    THEN IF ParseInt(token).nan THEN Str(token) ELSE Num(ParseInt(token).value)
    ELSE IF softBool /\ ToLowerCase(token) \notin BoolTokens
    THEN Str(token)
    ELSE Bool(ToLowerCase(token) = "true" \/ token = "1")

\* The last message ran its command's body with the parameters bound in
\* declaration order: the parameters before the first string parameter take
\* one token each, the first string parameter takes all the tokens left,
\* joined by spaces, and a parameter no token is left for is absent.
BoundByType(softBool) ==
    LET defs == DeclaredCommand(last.itemId, last.key).parameters
        args == last.args
        k == FirstString(defs)
    IN \A i \in 1..Len(defs) :
        LET value == ParameterValue(last.parameters, defs[i].name)
        IN IF i < k /\ i <= Len(args)
           THEN value = TokenValue(defs[i].type, args[i], softBool)
           ELSE IF i = k /\ i <= Len(args)
           THEN value = Str(Join(SubSeq(args, k, Len(args)), " "))
           ELSE value = Undefined

\* C11, as claimed: a string parameter takes all remaining tokens, an int or
\* bool parameter takes one token, and an int or bool token that fails to
\* parse reaches the body as the original string token.
C11_FailedParseKeepsToken ==
    ( CommandMatched /\ last.reply = << >> ) => BoundByType(TRUE)

\* C11, amended: a string parameter takes all remaining tokens, an int or
\* bool parameter takes one token, an int token that parseInt cannot read
\* reaches the body as the original string token, and a bool token is true
\* when it is "true" in any case or "1" and false otherwise.
C11_BindingByType ==
    ( CommandMatched /\ last.reply = << >> ) => BoundByType(FALSE)

\* C11's case: an int parameter given a token that is no number, a bool
\* parameter given one token, a string parameter given the rest.
C11_Witness ==
    /\ CommandMatched
    /\ last.content = "?roll x 1 z"
    /\ last.parameters = << [ key |-> "count", value |-> Str("x") ],
                            [ key |-> "loud", value |-> Bool(TRUE) ],
                            [ key |-> "note", value |-> Str("z") ] >>
    /\ Len(last.ran) = 1

(***************************************************************************)
(* ImportValidator.validate as a function of its arguments                  *)
(***************************************************************************)

\* How many statements a text of the validator's inputs is made of.
MaxFragments == 2

\* How many scopes a manifest of the validator's inputs declares.
MaxDeclared == 2

\* The statements the texts are made of.
Fragments ==
    { "guilds.send(ch, 'hi') ", "db.insert('t', row) ", "db.query_one('t', id) ",
      "on_load { } ", "use db.set ", "use discord.guilds ", "g.create_channel('x') " }

\* The scopes the manifests choose from.
DeclaredChoices == { "messages.send", "db.read", "db.write", "channels.create" }

InitValidate ==
    /\ InitManager
    /\ persisted = << >>
    /\ hostWired = FALSE
    /\ \E frags \in UNION { [ 1..k -> Fragments ] : k \in 0..MaxFragments } :
       \E scopes \in SeqsNoRepeat(DeclaredChoices, MaxDeclared) :
            vIn = [ code |-> Concat(frags), scopes |-> scopes ]
    /\ vOut = NoValidation

\* The call validator.validate(dslCode, declaredImports, manifest.scopes) as
\* install and the startup load make it.
Validate ==
    /\ vOut = NoValidation
    /\ vOut' = << validate(vIn.code, extractImports(vIn.code), vIn.scopes) >>
    /\ UNCHANGED << vIn, persisted, startupPc, startupQueue, installedPlugins,
                    loadedPlugins, last >>
    /\ UNCHANGED dispatchUnchanged
    /\ UNCHANGED httpUnchanged
    /\ UNCHANGED running
    /\ UNCHANGED pass

NextValidate == Validate

SpecValidate == InitValidate /\ [][NextValidate]_vars

\* The scopes the constructs of the table occurring in a text require.
ScopesRequiredBy(code) ==
    { sc \in AllScopes :
        \E i \in 1..Len(MODULE_REQUIREMENTS) :
            /\ sc \in Range(MODULE_REQUIREMENTS[i][2])
            /\ Includes(code, MODULE_REQUIREMENTS[i][1]) }

\* The scopes a returned validation reports as missing.
ReportedMissing(v) == IF v.errors = << >> THEN { } ELSE Range(v.errors[1])

\* C4: validate returns valid = false exactly when some construct of
\* MODULE_REQUIREMENTS occurring in the source requires a scope that is not
\* declared, and the missing scopes it reports are exactly the required
\* scopes minus the declared ones.
C4_ValidateExact ==
    vOut # NoValidation =>
        LET missing == ScopesRequiredBy(vIn.code) \ Range(vIn.scopes)
        IN /\ vOut[1].valid <=> missing = { }
           /\ ReportedMissing(vOut[1]) = missing
           /\ vOut[1].valid <=> vOut[1].errors = << >>

\* C4's case: a text requiring two scopes, one of them declared, was
\* validated and refused.
C4_Witness ==
    /\ vOut # NoValidation
    /\ ~vOut[1].valid
    /\ ScopesRequiredBy(vIn.code) = { "db.read", "db.write" }
    /\ vIn.scopes = << "db.read" >>
    /\ ReportedMissing(vOut[1]) = { "db.write" }

\* The entries of the last message's trace that one listener left in one
\* section.
Heard(itemId, handler, section) ==
    { k \in 1..Len(last.trace) :
        /\ last.trace[k].by = "handleLogicListeners"
        /\ last.trace[k].itemId = itemId
        /\ last.trace[k].handler = handler
        /\ last.trace[k].section = section }

\* Whether a listener's predicate is true of a message.
PatternHolds(listener, content) ==
    \/ listener.test = "contains" /\ Includes(content, listener.arg)
    \/ listener.test = "to_lower.contains" /\ Includes(ToLowerCase(content), listener.arg)
    \/ listener.test = "starts_with" /\ StartsWith(content, listener.arg)

\* C13: for every guild message of a member, prefixed or not, every
\* on_listen listener of every loaded plugin of the guild has its predicate
\* evaluated once, each listener whose predicate is true has its action body
\* executed once and no other listener's action runs, and for a prefixed
\* message the command is dispatched after the listeners.
C13_ListenersThenDispatch ==
    last.kind = "message" =>
        /\ \A i \in 1..Len(last.plugins) :
             \A j \in 1..Len(LogicSource[last.plugins[i]].listeners) :
                /\ Cardinality(Heard(last.plugins[i], ToString(j), "pattern")) = 1
                /\ Cardinality(Heard(last.plugins[i], ToString(j), "action")) =
                     IF PatternHolds(LogicSource[last.plugins[i]].listeners[j], last.content)
                     THEN 1 ELSE 0
        /\ \A k \in 1..Len(last.trace) :
             last.trace[k].by = "handleLogicListeners"
                => /\ \E i \in 1..Len(last.plugins) : last.plugins[i] = last.trace[k].itemId
                   /\ k <= Len(last.trace) - Len(last.ran)
        /\ SubSeq(last.trace, Len(last.trace) - Len(last.ran) + 1, Len(last.trace)) = last.ran
        /\ StartsWith(last.content, "?")
             => /\ last.key = ChosenName(last.plugins, last.content)
                /\ ( \E i \in 1..Len(last.plugins) :
                        FirstInLoadOrderWithCommand(last.plugins, last.plugins[i], last.key) )
                     => CommandMatched

\* C13's case: a prefixed message whose text two plugins listen for; the
\* listeners of both run before the command's body.
C13_Witness ==
    /\ last.kind = "message"
    /\ last.content = "?ticket close"
    /\ last.plugins = << "hello", "tickets" >>
    /\ Len(last.ran) = 1
    /\ Len(last.trace) = 8
    /\ last.trace[8] = last.ran[1]
    /\ Heard("tickets", "1", "action") = { 4 }
    /\ Heard("tickets", "3", "action") = { 7 }

(***************************************************************************)
(* Reaction handlers                                                        *)
(***************************************************************************)

\* The on_reaction blocks of the plugin sources, in the order of the text;
\* cooldown 0 stands for no cooldown line.
ReactionBlocks ==
    [ p \in ItemIds |->
        CASE p = "hello" ->
               << [ cooldown |-> 2, onCooldown |-> NoBody, execute |-> << SendHello >> ] >>
          [] p = "tickets" ->
               << [ cooldown |-> 2, onCooldown |-> << SendWait >>,
                    execute |-> << OpenChannel >> ],
                  [ cooldown |-> 1, onCooldown |-> NoBody, execute |-> << SendHello >> ],
                  [ cooldown |-> 0, onCooldown |-> NoBody, execute |-> << SendHello >> ] >>
          [] OTHER -> << >> ]

\* parseReactionHandlers: one handler per on_reaction block, with its
\* cooldown, its on_cooldown body and its execute body.
parseReactionHandlers(itemId) ==
    [ j \in 1..Len(ReactionBlocks[itemId]) |->
        [ itemId |-> itemId, index |-> ToString(j),
          cooldown |-> ReactionBlocks[itemId][j].cooldown,
          onCooldown |-> ReactionBlocks[itemId][j].onCooldown,
          execute |-> ReactionBlocks[itemId][j].execute ] ]

\* The two loops of the listener, flattened: every handler of every loaded
\* plugin of the guild, in load order and then in text order.
ReactionHandlers(plugins) ==
    Flatten([ i \in 1..Len(plugins) |-> parseReactionHandlers(plugins[i]) ])

\* The members that add reactions; one of them is a bot.
Reactors == { "u1", "u2", "bot" }
IsBot(userId) == userId = "bot"

\* `${message.guild.id}:${itemId}:${cooldownKey}:${user.id}`
ReactionKey(guildId, itemId, userId) ==
    guildId \o ":" \o itemId \o ":" \o "reaction_handler" \o ":" \o userId

\* The body of the inner loop for one handler: the cooldown check on
\* this.cooldowns, then on_cooldown or execute.
ReactionStep(handler, guildId, userId, map) ==
    LET cdKey == ReactionKey(guildId, handler.itemId, userId)
    IN IF handler.cooldown # 0 /\ DateNow < ExpirationTime(map, cdKey)
       THEN [ cooldowns |-> map,
              ran |-> executeCode("messageReactionAdd", handler.itemId, handler.index,
                                  "on_cooldown", handler.onCooldown) ]
       ELSE [ cooldowns |-> IF handler.cooldown # 0
                            THEN CooldownSet(map, cdKey, DateNow + handler.cooldown * 1000)
                            ELSE map,
              ran |-> executeCode("messageReactionAdd", handler.itemId, handler.index,
                                  "execute", handler.execute) ]

\* The loops of the listener over the handlers from the first one on.
RECURSIVE ReactionLoop(_, _, _, _)
ReactionLoop(handlers, guildId, userId, map) ==
    IF handlers = << >> THEN [ cooldowns |-> map, ran |-> << >> ]
    ELSE [ cooldowns |->
             ReactionLoop(Tail(handlers), guildId, userId,
                          ReactionStep(Head(handlers), guildId, userId, map).cooldowns).cooldowns,
           ran |->
             ReactionStep(Head(handlers), guildId, userId, map).ran
               \o ReactionLoop(Tail(handlers), guildId, userId,
                               ReactionStep(Head(handlers), guildId, userId, map).cooldowns).ran ]

\* The executions of execute bodies so far, kept with the event: for each
\* guild, handler and member the time of the latest one.
Executed == IF "executed" \in DOMAIN last THEN last.executed ELSE { }

\* The executions after an event that ran the bodies ran at time now.
ExecutedAfter(guildId, userId, ran) ==
    LET fresh == { [ guildId |-> guildId, userId |-> userId, itemId |-> ran[k].itemId,
                     handler |-> ran[k].handler, time |-> now ] :
                     k \in { k \in 1..Len(ran) : ran[k].section = "execute" } }
        replaced(e) == \E f \in fresh : /\ f.guildId = e.guildId /\ f.userId = e.userId
                                        /\ f.itemId = e.itemId /\ f.handler = e.handler
    IN { e \in Executed : ~replaced(e) } \cup fresh

\* client.emit('messageReactionAdd', reaction, user) for a message of a
\* guild: the manager's listener.
ReactionAdd(guildId, userId) ==
    LET plugins == loadedPlugins[guildId]
        outcome == IF IsBot(userId) THEN [ cooldowns |-> cooldowns, ran |-> << >> ]
                   ELSE ReactionLoop(ReactionHandlers(plugins), guildId, userId, cooldowns)
    IN /\ cooldowns' = outcome.cooldowns
       /\ last' = [ kind |-> "reaction", guildId |-> guildId, userId |-> userId,
                    time |-> now, plugins |-> plugins, ran |-> outcome.ran,
                    before |-> Executed,
                    executed |-> ExecutedAfter(guildId, userId, outcome.ran) ]
       /\ UNCHANGED managerUnchanged
       /\ UNCHANGED << hostWired, clientCooldowns, now >>
       /\ UNCHANGED validatorUnchanged
       /\ UNCHANGED pass
       /\ UNCHANGED running
       /\ UNCHANGED httpUnchanged

\* The plugins loaded per guild when reactions arrive.
ReactionTables ==
    { [ g \in Guilds |-> IF g = "g1" THEN << "hello", "tickets" >> ELSE << "tickets" >> ],
      [ g \in Guilds |-> IF g = "g1" THEN << "tickets", "hello" >> ELSE << >> ] }

InitReact ==
    /\ persisted = << >>
    /\ startupPc = "done"
    /\ startupQueue = << >>
    /\ loadedPlugins \in ReactionTables
    /\ installedPlugins =
         [ g \in Guilds |->
             [ i \in 1..Len(loadedPlugins[g]) |->
                 [ itemId |-> loadedPlugins[g][i], enabled |-> TRUE ] ] ]
    /\ hostWired = FALSE
    /\ cooldowns = NoCooldowns
    /\ clientCooldowns = NoCooldowns
    /\ now = 0
    /\ last = Nothing
    /\ vIn = NoInput
    /\ vOut = NoValidation
    /\ InitHttp
    /\ running = << >>
    /\ pass = << >>

NextReact ==
    \/ \E g \in Guilds, u \in Reactors : ReactionAdd(g, u)
    \/ Tick

SpecReact == InitReact /\ [][NextReact]_vars

\* The executions of the last event that belong to one handler.
RunsOf(itemId, handler) ==
    { k \in 1..Len(last.ran) :
        last.ran[k].itemId = itemId /\ last.ran[k].handler = handler }

\* C12: on a reaction add by a non-bot user every reaction handler of every
\* loaded plugin of the guild is considered, and a handler is cooldown-denied
\* exactly when that same handler ran its execute body for that user less
\* than its cooldown ago: a cooldown started by another handler, of the same
\* plugin or of another, never denies it.
C12_OwnCooldownOnly ==
    ( last.kind = "reaction" /\ ~IsBot(last.userId) )
        => \A i \in 1..Len(last.plugins) :
             \A j \in 1..Len(ReactionBlocks[last.plugins[i]]) :
                LET block == ReactionBlocks[last.plugins[i]][j]
                    denied ==
                        /\ block.cooldown > 0
                        /\ \E e \in last.before :
                              /\ e.guildId = last.guildId
                              /\ e.userId = last.userId
                              /\ e.itemId = last.plugins[i]
                              /\ e.handler = ToString(j)
                              /\ last.time * 1000 < e.time * 1000 + block.cooldown * 1000
                    body == IF denied THEN block.onCooldown ELSE block.execute
                    runs == RunsOf(last.plugins[i], ToString(j))
                IN IF body = NoBody THEN runs = { }
                   ELSE /\ Cardinality(runs) = 1
                        /\ \A k \in runs :
                              last.ran[k].section = IF denied THEN "on_cooldown" ELSE "execute"

(***************************************************************************)
(* emit.trigger                                                             *)
(***************************************************************************)

\* The handlers whose body calls emit.trigger, by the dispatcher that runs
\* them, and where the catch of executeCode sends the error of each: to the
\* channel when the context has message.channelId, through
\* interaction.respond when the context has it, and to the console only
\* otherwise.
ErrorPath ==
    [ by \in { "handleCommand", "handleLogicListeners", "buttonHandler",
               "handleButton", "messageReactionAdd" } |->
        CASE by \in { "handleCommand", "handleLogicListeners" } -> "channel"
          [] by = "buttonHandler" -> "interaction"
          [] OTHER -> "console" ]

\* The targets plugin code passes to emit.trigger.
Targets ==
    { "event:ticket_created", "event:trigger_special_event", "event:special_event",
      "event:nothing", "fun:close_ticket_logic", "fun:missing",
      "command:ticket.close", "command:ticket.create", "command:nope", "bogus:x" }

\* An event trigger that runs the event blocks only.
handleCustomEventTrigger_eventsOnly(guildId, itemId, eventName) ==
    IF ~ArrayIncludes(loadedPlugins[guildId], itemId) THEN [ ran |-> << >>, thrown |-> "" ]
    ELSE [ thrown |-> "",
           ran |-> Flatten([ k \in 1..Len(LogicSource[itemId].events) |->
                       IF LogicSource[itemId].events[k].name # eventName THEN << >>
                       ELSE executeCode("handleCustomEventTrigger", itemId, eventName,
                                        "event", LogicSource[itemId].events[k].code) ]) ]

\* handleCustomEventTrigger: the handlers customEvents holds for the name,
\* then the on_trigger handlers of logicHandlers whose pattern is the name.
handleCustomEventTrigger(guildId, itemId, eventName) ==
    IF ~ArrayIncludes(loadedPlugins[guildId], itemId) THEN [ ran |-> << >>, thrown |-> "" ]
    ELSE [ thrown |-> "",
           ran |-> Flatten([ k \in 1..Len(LogicSource[itemId].events) |->
                       IF LogicSource[itemId].events[k].name # eventName THEN << >>
                       ELSE executeCode("handleCustomEventTrigger", itemId, eventName,
                                        "event", LogicSource[itemId].events[k].code) ])
                   \o Flatten([ k \in 1..Len(parseLogicHandlers(itemId)) |->
                       IF /\ parseLogicHandlers(itemId)[k].type = "on_trigger"
                          /\ parseLogicHandlers(itemId)[k].pattern = eventName
                       THEN executeCode("handleCustomEventTrigger", itemId, eventName,
                                        "on_trigger", parseLogicHandlers(itemId)[k].action)
                       ELSE << >> ]) ]

\* A function trigger that returns when the function is not found.
handleFunctionTrigger_silent(guildId, itemId, functionName) ==
    [ thrown |-> "",
      ran |-> Flatten([ k \in 1..Len(LogicSource[itemId].functions) |->
                 IF /\ ArrayIncludes(loadedPlugins[guildId], itemId)
                    /\ LogicSource[itemId].functions[k].name = functionName
                 THEN executeCode("handleFunctionTrigger", itemId, functionName, "fun",
                                  LogicSource[itemId].functions[k].body)
                 ELSE << >> ]) ]

\* handleFunctionTrigger: the first `fun <name>(` of the plugin's text is
\* executed; without one, Error("Function '<name>' not found") is thrown.
handleFunctionTrigger(guildId, itemId, functionName) ==
    LET found == { k \in 1..Len(LogicSource[itemId].functions) :
                     LogicSource[itemId].functions[k].name = functionName }
    IN IF ~ArrayIncludes(loadedPlugins[guildId], itemId) THEN [ ran |-> << >>, thrown |-> "" ]
       ELSE IF found = { }
       THEN [ ran |-> << >>, thrown |-> "Function '" \o functionName \o "' not found" ]
       ELSE [ thrown |-> "",
              ran |-> executeCode("handleFunctionTrigger", itemId, functionName, "fun",
                        LogicSource[itemId].functions[
                            CHOOSE k \in found : \A l \in found : k <= l].body) ]

\* A command trigger that respects the command's declared cooldown.
handleCommandTrigger_cooldown(guildId, itemId, commandName) ==
    IF ~ArrayIncludes(loadedPlugins[guildId], itemId) THEN [ ran |-> << >>, thrown |-> "" ]
    ELSE IF ~CommandsHas(Plugin[itemId], commandName)
    THEN [ ran |-> << >>, thrown |-> "Command '" \o commandName \o "' not found" ]
    ELSE [ thrown |-> "",
           ran |-> IF CommandsGet(Plugin[itemId], commandName).cooldown # 0 THEN << >>
                   ELSE executeCode("handleCommandTrigger", itemId, commandName, "on_command",
                                    CommandsGet(Plugin[itemId], commandName).onCommand) ]

\* handleCommandTrigger: the on_command body of the plugin's command of that
\* name; without one, Error("Command '<name>' not found") is thrown.
handleCommandTrigger(guildId, itemId, commandName) ==
    IF ~ArrayIncludes(loadedPlugins[guildId], itemId) THEN [ ran |-> << >>, thrown |-> "" ]
    ELSE IF ~CommandsHas(Plugin[itemId], commandName)
    THEN [ ran |-> << >>, thrown |-> "Command '" \o commandName \o "' not found" ]
    ELSE [ thrown |-> "",
           ran |-> executeCode("handleCommandTrigger", itemId, commandName, "on_command",
                               CommandsGet(Plugin[itemId], commandName).onCommand) ]

\* An emit.trigger that reaches the plugin through any guild that has it
\* loaded.
EmitTriggerCall_anyGuild(guildId, itemId, target) ==
    LET colon == IndexOf(target, ":")
        type == SubSeq(target, 1, colon - 1)
        name == SubSeq(target, colon + 1, Len(target))
        holders == { g \in Guilds : ArrayIncludes(loadedPlugins[g], itemId) }
        guild == IF holders = { } THEN guildId ELSE CHOOSE g \in holders : TRUE
    IN IF colon = 0 \/ type \notin { "event", "fun", "command" } \/ name = ""
       THEN [ ran |-> << >>,
              thrown |-> "Invalid trigger format. Use: event:name, fun:name, or command:name" ]
       ELSE IF type = "event" THEN handleCustomEventTrigger(guild, itemId, name)
       ELSE IF type = "fun" THEN handleFunctionTrigger(guild, itemId, name)
       ELSE handleCommandTrigger(guild, itemId, name)

\* The sandbox's emit.trigger(target) of the plugin itemId loaded for
\* guildId: target.match(/^(event|fun|command):(.+)$/) and the switch.
EmitTriggerCall(guildId, itemId, target) ==
    LET colon == IndexOf(target, ":")
        type == SubSeq(target, 1, colon - 1)
        name == SubSeq(target, colon + 1, Len(target))
    IN IF colon = 0 \/ type \notin { "event", "fun", "command" } \/ name = ""
       THEN [ ran |-> << >>,
              thrown |-> "Invalid trigger format. Use: event:name, fun:name, or command:name" ]
       ELSE IF type = "event" THEN handleCustomEventTrigger(guildId, itemId, name)
       ELSE IF type = "fun" THEN handleFunctionTrigger(guildId, itemId, name)
       ELSE handleCommandTrigger(guildId, itemId, name)

\* executeCode of a handler body of a loaded plugin that is the statement
\* `emit.trigger(<target>, {})`, run by the dispatcher by: what the trigger
\* ran, the error the catch of executeCode received and where it sent it.
EmitTrigger(guildId, itemId, by, target) ==
    /\ ArrayIncludes(loadedPlugins[guildId], itemId)
    /\ last' = [ kind |-> "trigger", guildId |-> guildId, itemId |-> itemId,
                 by |-> by, target |-> target, time |-> now,
                 ran |-> EmitTriggerCall(guildId, itemId, target).ran,
                 error |-> EmitTriggerCall(guildId, itemId, target).thrown,
                 surfaced |-> IF EmitTriggerCall(guildId, itemId, target).thrown = ""
                              THEN "none" ELSE ErrorPath[by],
                 repeat |-> /\ last.kind = "trigger"
                            /\ last.guildId = guildId
                            /\ last.itemId = itemId
                            /\ last.target = target ]
    /\ UNCHANGED managerUnchanged
    /\ UNCHANGED dispatchUnchanged
    /\ UNCHANGED validatorUnchanged
    /\ UNCHANGED pass
    /\ UNCHANGED running
    /\ UNCHANGED httpUnchanged

NextTrigger ==
    \E g \in Guilds, p \in ItemIds, by \in DOMAIN ErrorPath, target \in Targets :
        EmitTrigger(g, p, by, target)

SpecTrigger == InitReact /\ [][NextTrigger]_vars

\* The last thing that happened is a trigger of one kind; its name.
Triggered(type) ==
    last.kind = "trigger" /\ StartsWith(last.target, type \o ":")
TriggerName == SubSeq(last.target, IndexOf(last.target, ":") + 1, Len(last.target))

\* The bodies of one section the last trigger ran.
RanIn(section) == { k \in 1..Len(last.ran) : last.ran[k].section = section }

\* C14: emit.trigger of kind event with name e runs every body registered
\* for custom event e and every logic on_trigger handler named e of the
\* emitting plugin, each exactly once, and no body registered under another
\* name or by another plugin.
C14_EventTriggerRunsNamed ==
    Triggered("event") =>
        /\ last.error = ""
        /\ Cardinality(RanIn("event")) =
             Cardinality({ k \in 1..Len(LogicSource[last.itemId].events) :
                             LogicSource[last.itemId].events[k].name = TriggerName })
        /\ Cardinality(RanIn("on_trigger")) =
             Cardinality({ k \in 1..Len(LogicSource[last.itemId].triggers) :
                             LogicSource[last.itemId].triggers[k].name = TriggerName })
        /\ Len(last.ran) = Cardinality(RanIn("event")) + Cardinality(RanIn("on_trigger"))
        /\ \A k \in 1..Len(last.ran) :
              /\ last.ran[k].itemId = last.itemId
              /\ last.ran[k].handler = TriggerName
        /\ \A k \in RanIn("event") :
              \E e \in 1..Len(LogicSource[last.itemId].events) :
                 /\ LogicSource[last.itemId].events[e].name = TriggerName
                 /\ Cardinality({ l \in RanIn("event") : l <= k }) =
                      Cardinality({ f \in 1..e : LogicSource[last.itemId].events[f].name
                                                    = TriggerName })
                 /\ last.ran[k].ops =
                      executeCode("", "", "", "", LogicSource[last.itemId].events[e].code)[1].ops

\* C14's case: two event blocks and one on_trigger handler of the name, in a
\* guild where another plugin registers the same name.
C14_Witness ==
    /\ Triggered("event")
    /\ last.target = "event:ticket_created"
    /\ last.itemId = "tickets"
    /\ ArrayIncludes(loadedPlugins[last.guildId], "hello")
    /\ Cardinality(RanIn("event")) = 2
    /\ Cardinality(RanIn("on_trigger")) = 1

C16_CommandTriggerDirect ==
    Triggered("command") =>
        IF \E k \in 1..Len(Marketplace[last.itemId].source.commands) :
               Marketplace[last.itemId].source.commands[k].name = TriggerName
        THEN /\ last.error = ""
             /\ Len(last.ran) = 1
             /\ last.ran[1].itemId = last.itemId
             /\ last.ran[1].handler = TriggerName
             /\ last.ran[1].section = "on_command"
        ELSE /\ last.error = "Command '" \o TriggerName \o "' not found"
             /\ last.ran = << >>

\* C16's case: a command with a cooldown and permissions the bot lacks in
\* the guild, triggered twice in a row.
C16_Witness ==
    /\ Triggered("command")
    /\ last.target = "command:ticket.create"
    /\ last.guildId = "g2"
    /\ last.repeat
    /\ DeclaredCommand(last.itemId, TriggerName).cooldown > 0
    /\ ~(Range(DeclaredCommand(last.itemId, TriggerName).botPermissions)
            \subseteq BotPermissions(last.guildId))
    /\ Len(last.ran) = 1

(***************************************************************************)
(* The sandbox's cooldown functions                                         *)
(***************************************************************************)

\* The keys with members and the spans plugin code passes to cooldown.set
\* and cooldown.is_on, and the plugin whose sandbox is called.
CooldownCalls == { << "daily", "u1" >>, << "daily", "u2" >>, << "vote", "u1" >> }
CooldownSpans == { 1, 2 }
CooldownPlugin == "tickets"

\* `${guildId}:${itemId}:${key}:${userId}`
CooldownKey(guildId, itemId, key, userId) ==
    guildId \o ":" \o itemId \o ":" \o key \o ":" \o userId

\* An is_on that counts the instant of expiry as still on.
is_on_inclusive(map, k) == DateNow <= ExpirationTime(map, k)

\* cooldown.is_on: Date.now() < (self.cooldowns.get(k) || 0)
is_on(map, k) == DateNow < ExpirationTime(map, k)

\* The calls of cooldown.set so far, kept with the event: for each key the
\* time and the span of the latest one.
Sets == IF "sets" \in DOMAIN last THEN last.sets ELSE { }

\* cooldown.set(key, userId, seconds) in the sandbox of a plugin of a guild.
SandboxCooldownSet(guildId, key, userId, seconds) ==
    /\ cooldowns' = CooldownSet(cooldowns,
                                CooldownKey(guildId, CooldownPlugin, key, userId),
                                DateNow + seconds * 1000)
    /\ last' = [ kind |-> "cooldown.set", guildId |-> guildId, key |-> key,
                 userId |-> userId, time |-> now,
                 sets |-> { e \in Sets : ~( /\ e.guildId = guildId /\ e.key = key
                                            /\ e.userId = userId ) }
                          \cup { [ guildId |-> guildId, key |-> key, userId |-> userId,
                                   time |-> now, seconds |-> seconds ] } ]
    /\ UNCHANGED managerUnchanged
    /\ UNCHANGED << hostWired, clientCooldowns, now >>
    /\ UNCHANGED validatorUnchanged
    /\ UNCHANGED pass
    /\ UNCHANGED running
    /\ UNCHANGED httpUnchanged

\* cooldown.is_on(key, userId) in the sandbox of a plugin of a guild.
SandboxCooldownIsOn(guildId, key, userId) ==
    /\ last' = [ kind |-> "cooldown.is_on", guildId |-> guildId, key |-> key,
                 userId |-> userId, time |-> now, sets |-> Sets,
                 result |-> is_on(cooldowns,
                                  CooldownKey(guildId, CooldownPlugin, key, userId)) ]
    /\ UNCHANGED managerUnchanged
    /\ UNCHANGED dispatchUnchanged
    /\ UNCHANGED validatorUnchanged
    /\ UNCHANGED pass
    /\ UNCHANGED running
    /\ UNCHANGED httpUnchanged

NextCooldown ==
    \/ \E g \in ManagedGuilds, c \in CooldownCalls, n \in CooldownSpans :
          SandboxCooldownSet(g, c[1], c[2], n)
    \/ \E g \in ManagedGuilds, c \in CooldownCalls : SandboxCooldownIsOn(g, c[1], c[2])
    \/ Tick

InitCooldown == InitReact /\ ArrayIncludes(loadedPlugins["g2"], CooldownPlugin)

SpecCooldown == InitCooldown /\ [][NextCooldown]_vars

\* The latest cooldown.set for the key and member of the last is_on, if any.
LatestSet ==
    { e \in last.sets :
        e.guildId = last.guildId /\ e.key = last.key /\ e.userId = last.userId }

\* C17: cooldown.is_on(key, user) is true exactly when cooldown.set(key,
\* user, n) was called and fewer than n seconds have passed since the latest
\* such call: true at every instant before n seconds have elapsed, false from
\* n seconds on, and false with no entry.
C17_IsOnUntilExpiry ==
    last.kind = "cooldown.is_on" =>
        ( last.result <=>
            \E e \in LatestSet : last.time * 1000 < e.time * 1000 + e.seconds * 1000 )

\* C17's case: is_on asked at the instant the n seconds have elapsed.
C17_Witness ==
    /\ last.kind = "cooldown.is_on"
    /\ ~last.result
    /\ \E e \in LatestSet : e.seconds = 2 /\ last.time = e.time + e.seconds

(***************************************************************************)
(* The sandbox's HTTP client and the network surface of the sandbox        *)
(***************************************************************************)

\* How many requests one behaviour makes.
MaxRequests == 3

\* The URLs plugin code asks for.
Urls ==
    { "http://evil.example/a", "https://u@EVIL.example:8080/b",
      "http://ok.example/", "ftp://evil.example/d" }

\* The URLs plugin code hands to the axios of the sandbox.
AxiosUrls == { "http://evil.example/a" }

\* The host names an administrator blocks, and the limits they set.
Domains == { "evil.example" }
PerMinuteChoices == { 1, 2 }

\* The plugins whose code makes requests, in the guild they are loaded in.
HttpGuild == "g1"
HttpItems == { "hello", "tickets" }

\* new URL(url).hostname: the authority between "://" and the next "/",
\* without the user information and the port, in lower case.
hostname(url) ==
    LET rest == SubSeq(url, IndexOf(url, "://") + 3, Len(url))
        slash == IndexOf(rest, "/")
        authority == IF slash = 0 THEN rest ELSE SubSeq(rest, 1, slash - 1)
        at == IndexOf(authority, "@")
        hostport == SubSeq(authority, at + 1, Len(authority))
        colon == IndexOf(hostport, ":")
        host == IF colon = 0 THEN hostport ELSE SubSeq(hostport, 1, colon - 1)
    IN ToLowerCase(host)

UrlHostname == Tabulated([ url \in Urls |-> hostname(url) ])

\* url.startsWith('http')
UrlAccepted == Tabulated([ url \in Urls |-> StartsWith(url, "http") ])

\* The key of httpLogs, and this.httpLogs.get(key) || [].
HttpKey(guildId, pluginId) == guildId \o ":" \o pluginId
LogsOf(logs, key) == IF key \in DOMAIN logs THEN logs[key] ELSE << >>

\* A logHttpRequest that keeps no entry of a request that did not succeed.
logHttpRequest_successes(logs, key, entry) ==
    [ k \in DOMAIN logs \cup { key } |->
        IF k = key /\ entry.success THEN Append(LogsOf(logs, key), entry)
        ELSE LogsOf(logs, k) ]

\* logHttpRequest: the entry is pushed onto the list of its key.
logHttpRequest(logs, key, entry) ==
    [ k \in DOMAIN logs \cup { key } |->
        IF k = key THEN Append(LogsOf(logs, key), entry) ELSE logs[k] ]

\* The entries checkHttpRateLimits keeps and counts.
RecentLogs(logs, key) ==
    SelectSeq(LogsOf(logs, key), LAMBDA e : e.timestamp > DateNow - 60 * 60 * 1000)

LastMinute(logs, key) ==
    SelectSeq(RecentLogs(logs, key), LAMBDA e : e.timestamp > DateNow - 60 * 1000)

\* checkHttpRateLimits: the message it throws, "" when it returns.
checkHttpRateLimits(guildId, pluginId) ==
    LET key == HttpKey(guildId, pluginId)
    IN IF Len(LastMinute(httpLogs, key)) >= requestLimits.maxRequestsPerMinute
       THEN "Rate limit exceeded: " \o ToString(requestLimits.maxRequestsPerMinute)
                \o " requests per minute"
       ELSE IF Len(RecentLogs(httpLogs, key)) >= requestLimits.maxRequestsPerHour
       THEN "Rate limit exceeded: " \o ToString(requestLimits.maxRequestsPerHour)
                \o " requests per hour"
       ELSE ""

\* The host name makeRequest tests against blockedDomains.
BlockTest_raw(url) == url

BlockTest(url) == UrlHostname[url]

\* What makeRequest throws before it calls the HTTP library, "" when it
\* goes on to the call: the URL test, the blocked-domain test, the limits.
Rejection(guildId, itemId, url) ==
    IF ~UrlAccepted[url] THEN "Invalid URL - must start with http/https"
    ELSE IF BlockTest(url) \in blockedDomains
    THEN "Domain " \o BlockTest(url) \o " is blocked due to abuse"
    ELSE checkHttpRateLimits(guildId, itemId)

\* The calls of the HTTP library that makeRequest made for the key within
\* the last minute and that have not settled.
Unsettled(key) ==
    SelectSeq(inFlight, LAMBDA c : c.key = key /\ c.started > DateNow - 60 * 1000)

HttpCount ==
    Len(inFlight) + Len(LogsOf(httpLogs, HttpKey(HttpGuild, "hello")))
        + Len(LogsOf(httpLogs, HttpKey(HttpGuild, "tickets")))

\* The entry makeRequest hands to logHttpRequest.
LogEntry(guildId, pluginId, success) ==
    [ guildId |-> guildId, pluginId |-> pluginId, timestamp |-> DateNow,
      success |-> success ]

\* The methods the switch of makeRequest has a case for.
SupportedMethods == { "GET", "POST", "PUT", "DELETE" }

\* makeRequest(method, url) of the sandbox up to the await of the library
\* call: a rejected request is logged by the catch block and rethrown, after
\* the pruning of checkHttpRateLimits when it is the method that is not
\* supported; an accepted one has pruned the log of its key and is in flight.
makeRequestWith(method, guildId, itemId, url) ==
    LET key == HttpKey(guildId, itemId)
        rejection == Rejection(guildId, itemId, url)
        error == IF rejection = "" /\ method \notin SupportedMethods
                 THEN "Unsupported HTTP method: " \o method
                 ELSE rejection
        pruned == [ k \in DOMAIN httpLogs \cup { key } |->
                      IF k = key THEN RecentLogs(httpLogs, key) ELSE httpLogs[k] ]
    IN /\ ArrayIncludes(loadedPlugins[guildId], itemId)
       /\ HttpCount < MaxRequests
       /\ IF rejection # ""
          THEN /\ httpLogs' = logHttpRequest(httpLogs, key, LogEntry(guildId, itemId, FALSE))
               /\ UNCHANGED inFlight
          ELSE IF error # ""
          THEN /\ httpLogs' = logHttpRequest(pruned, key, LogEntry(guildId, itemId, FALSE))
               /\ UNCHANGED inFlight
          ELSE /\ httpLogs' = pruned
               /\ inFlight' = Append(inFlight, [ key |-> key, guildId |-> guildId,
                                                 pluginId |-> itemId,
                                                 started |-> DateNow ])
       /\ last' = [ kind |-> "http", via |-> "http", guildId |-> guildId,
                    itemId |-> itemId, url |-> url, time |-> now,
                    blocked |-> blockedDomains,
                    limit |-> requestLimits.maxRequestsPerMinute,
                    logged |-> Len(LastMinute(httpLogs, key)),
                    unsettled |-> Len(Unsettled(key)),
                    called |-> error = "",
                    error |-> IF error = "" THEN ""
                              ELSE "HTTP " \o method \o " failed: " \o error ]
       /\ UNCHANGED << blockedDomains, requestLimits >>
       /\ UNCHANGED managerUnchanged
       /\ UNCHANGED dispatchUnchanged
       /\ UNCHANGED validatorUnchanged
       /\ UNCHANGED pass
       /\ UNCHANGED running

\* http.get(url) of the sandbox.
makeRequest(guildId, itemId, url) == makeRequestWith("GET", guildId, itemId, url)

\* The library call of an accepted request settles, with a response or with
\* an error: makeRequest logs it either way, at the time it settles.
Settle(i, success) ==
    /\ i \in 1..Len(inFlight)
    /\ httpLogs' = logHttpRequest(httpLogs, inFlight[i].key,
                                  LogEntry(inFlight[i].guildId, inFlight[i].pluginId,
                                           success))
    /\ inFlight' = [ j \in 1..(Len(inFlight) - 1) |->
                       IF j < i THEN inFlight[j] ELSE inFlight[j + 1] ]
    /\ last' = [ kind |-> "http.settled", key |-> inFlight[i].key ]
    /\ UNCHANGED << blockedDomains, requestLimits >>
    /\ UNCHANGED managerUnchanged
    /\ UNCHANGED dispatchUnchanged
    /\ UNCHANGED validatorUnchanged
    /\ UNCHANGED pass
    /\ UNCHANGED running

\* The sandbox's axios, the package itself: axios.get(url) of plugin code
\* calls the library; no field of the manager is read or written.
SandboxAxios(guildId, itemId, url) ==
    /\ ArrayIncludes(loadedPlugins[guildId], itemId)
    /\ last' = [ kind |-> "http", via |-> "axios", guildId |-> guildId,
                 itemId |-> itemId, url |-> url, time |-> now,
                 blocked |-> blockedDomains,
                 limit |-> requestLimits.maxRequestsPerMinute,
                 called |-> TRUE, error |-> "" ]
    /\ UNCHANGED httpUnchanged
    /\ UNCHANGED managerUnchanged
    /\ UNCHANGED dispatchUnchanged
    /\ UNCHANGED validatorUnchanged
    /\ UNCHANGED pass
    /\ UNCHANGED running

blockDomain(domain) ==
    /\ blockedDomains' = blockedDomains \cup { domain }
    /\ last' = [ kind |-> "blockDomain", domain |-> domain ]
    /\ UNCHANGED << requestLimits, httpLogs, inFlight >>
    /\ UNCHANGED managerUnchanged
    /\ UNCHANGED dispatchUnchanged
    /\ UNCHANGED validatorUnchanged
    /\ UNCHANGED pass
    /\ UNCHANGED running

unblockDomain(domain) ==
    /\ blockedDomains' = blockedDomains \ { domain }
    /\ last' = [ kind |-> "unblockDomain", domain |-> domain ]
    /\ UNCHANGED << requestLimits, httpLogs, inFlight >>
    /\ UNCHANGED managerUnchanged
    /\ UNCHANGED dispatchUnchanged
    /\ UNCHANGED validatorUnchanged
    /\ UNCHANGED pass
    /\ UNCHANGED running

\* setRequestLimit('perMinute', value)
setRequestLimit(value) ==
    /\ requestLimits' = [ requestLimits EXCEPT !.maxRequestsPerMinute = value ]
    /\ last' = [ kind |-> "setRequestLimit", value |-> value ]
    /\ UNCHANGED << blockedDomains, httpLogs, inFlight >>
    /\ UNCHANGED managerUnchanged
    /\ UNCHANGED dispatchUnchanged
    /\ UNCHANGED validatorUnchanged
    /\ UNCHANGED pass
    /\ UNCHANGED running

\* Half a minute passes.
HalfMinute ==
    /\ now < MaxTime * ((60 * 1000) \div 2000)
    /\ now' = now + ((60 * 1000) \div 2000)
    /\ UNCHANGED << hostWired, cooldowns, clientCooldowns, last >>
    /\ UNCHANGED httpUnchanged
    /\ UNCHANGED managerUnchanged
    /\ UNCHANGED validatorUnchanged
    /\ UNCHANGED pass
    /\ UNCHANGED running

NextHttp ==
    \/ \E i \in HttpItems, url \in Urls : makeRequest(HttpGuild, i, url)
    \/ \E i \in 1..MaxRequests, success \in BOOLEAN : Settle(i, success)
    \/ \E url \in AxiosUrls : SandboxAxios(HttpGuild, "tickets", url)
    \/ \E d \in Domains : blockDomain(d)
    \/ \E d \in Domains : unblockDomain(d)
    \/ \E v \in PerMinuteChoices : setRequestLimit(v)
    \/ HalfMinute

InitHttpClient ==
    /\ InitReact
    /\ \A i \in HttpItems : ArrayIncludes(loadedPlugins[HttpGuild], i)
    /\ loadedPlugins["g2"] = << >>

SpecHttp == InitHttpClient /\ [][NextHttp]_vars

\* The host each URL names, as a reader of the URL takes it.
HostOf ==
    ( "http://evil.example/a" :> "evil.example" )
        @@ ( "https://u@EVIL.example:8080/b" :> "evil.example" )
        @@ ( "http://ok.example/" :> "ok.example" )
        @@ ( "ftp://evil.example/d" :> "evil.example" )

\* A request through http.get whose URL is well formed and not blocked.
Limited ==
    /\ last.kind = "http"
    /\ last.via = "http"
    /\ StartsWith(last.url, "http")
    /\ HostOf[last.url] \notin blockedDomains

\* C18: with the per-minute limit N, once N requests of one (guild, plugin)
\* fall within the last minute, the next request through http.get is
\* rejected with the rate-limit error and makes no call of the HTTP library;
\* N is the value of the latest setRequestLimit('perMinute', v).
C18_PerMinuteLimit ==
    ( Limited /\ last.logged + last.unsettled >= requestLimits.maxRequestsPerMinute )
        => /\ ~last.called
           /\ last.error = "HTTP GET failed: Rate limit exceeded: "
                               \o ToString(requestLimits.maxRequestsPerMinute)
                               \o " requests per minute"

\* C19: while a domain is in the blocked set, every request through http.get
\* whose URL names that host is rejected and makes no call of the HTTP
\* library, whatever the log of the plugin holds.
C19_BlockedDomainRejected ==
    \A d \in Domains :
        ( last.kind = "http" /\ last.via = "http" /\ HostOf[last.url] = d
            /\ d \in blockedDomains )
            => ~last.called /\ last.error # ""

\* C19's case: the blocked host written in capitals, behind user information
\* and with a port, asked for by a plugin that has made no request yet.
C19_Witness ==
    /\ last.kind = "http"
    /\ last.via = "http"
    /\ last.url = "https://u@EVIL.example:8080/b"
    /\ "evil.example" \in blockedDomains
    /\ last.logged = 0 /\ last.unsettled = 0
    /\ ~last.called
    /\ last.error = "HTTP GET failed: Domain evil.example is blocked due to abuse"

\* C20: every call of the HTTP library that plugin code causes has passed
\* the blocked-domain test: none goes to a host that is blocked.
C20_EveryRequestChecked ==
    ( last.kind = "http" /\ last.called ) => HostOf[last.url] \notin blockedDomains

(***************************************************************************)
(* Handler bodies that fail: the catch of executeCode                      *)
(***************************************************************************)

\* The values a handler body throws or rejects with.
Thrown ==
    { [ type |-> "Error", message |-> "x is not defined" ],
      [ type |-> "Error", message |-> "Script execution timed out after 5000ms" ],
      [ type |-> "string", message |-> "boom" ],
      [ type |-> "null", message |-> "" ],
      [ type |-> "undefined", message |-> "" ] }

\* What reading err.message does to the catch block that holds err.
PropertyError(err) ==
    [ type |-> "Error",
      message |-> "Cannot read properties of " \o err.type \o " (reading 'message')" ]

\* createErrorEmbed(err): err.message of null or undefined throws a
\* TypeError; otherwise the title follows the text of the message.
createErrorEmbed(err) ==
    IF err.type \in { "null", "undefined" } THEN [ threw |-> TRUE, title |-> "" ]
    ELSE [ threw |-> FALSE,
           title |-> IF Includes(err.message, "Unexpected identifier") THEN "Syntax Error"
                     ELSE IF Includes(err.message, "is not defined") THEN "Reference Error"
                     ELSE IF Includes(err.message, "is not a function") THEN "Type Error"
                     ELSE IF Includes(err.message, "Cannot read properties")
                     THEN "Property Access Error"
                     ELSE IF Includes(err.message, "Timeout") THEN "Timeout Error"
                     ELSE "Code Execution Error" ]

ErrorEmbeds == Tabulated([ err \in Thrown \cup { PropertyError(e) : e \in Thrown } |->
                             createErrorEmbed(err) ])

\* The catch block of executeCode for a body that threw err, with the
\* context of the path: whether executeCode itself rejects, and where the
\* embed went.
CatchOf(path, err) ==
    IF ErrorEmbeds[err].threw
    THEN [ rejects |-> TRUE, reported |-> "none", title |-> "" ]
    ELSE [ rejects |-> FALSE, reported |-> path, title |-> ErrorEmbeds[err].title ]

\* The second argument plugin code gives emit.trigger.
TriggerData == { "{}", "{channel_id}" }

\* Where the catch of executeCode sends the error of a body a trigger runs:
\* the contexts of event and function triggers have neither message nor
\* interaction, that of a command trigger has message.channelId = the
\* channel_id of the data, '' without one.
TriggerErrorPath(type, data) ==
    IF type = "command" /\ data = "{channel_id}" THEN "channel" ELSE "console"

\* The messages, dispatchers and targets of the failing bodies.
FailingContents == { "hello there", "?ticket close", "?hello" }
FailingDispatchers == { "handleCommand", "buttonHandler", "messageReactionAdd" }
FailingTargets == { "event:ticket_created", "fun:close_ticket_logic", "command:ticket.close" }

\* handleLogicListeners and handleCommand for these messages.
FailingTraces ==
    Tabulated([ guildPlugins \in { t[g] : t \in ReactionTables, g \in Guilds },
                content \in FailingContents |->
                  [ listened |-> handleLogicListeners(guildPlugins, content),
                    ran |-> handleCommand(guildPlugins, content).ran ] ])

\* A message whose trace has a body at position k that throws err.
MessageThrows(guildId, userId, content, k, err) ==
    LET listened == FailingTraces[loadedPlugins[guildId], content].listened
        trace == listened \o FailingTraces[loadedPlugins[guildId], content].ran
        caught == CatchOf(ErrorPath[trace[k].by], err)
    IN /\ k \in 1..Len(trace)
       /\ trace[k].section # "pattern"
       /\ last' = [ kind |-> "failure", event |-> "message", guildId |-> guildId,
                    userId |-> userId, by |-> trace[k].by, itemId |-> trace[k].itemId,
                    thrown |-> err, due |-> trace, ran |-> trace,
                    rejected |-> caught.rejects,
                    escaped |-> caught.rejects /\ k > Len(listened),
                    reported |-> caught.reported, title |-> caught.title ]
       /\ UNCHANGED managerUnchanged
       /\ UNCHANGED dispatchUnchanged
       /\ UNCHANGED validatorUnchanged
       /\ UNCHANGED pass
       /\ UNCHANGED running
       /\ UNCHANGED httpUnchanged

\* A click on a button whose execute body, run by the manager's
\* handleButton, throws err.
ClickThrows(guildId, userId, customId, err) ==
    LET byManager == handleButton(guildId, customId)
        caught == CatchOf(ErrorPath["handleButton"], err)
    IN /\ byManager.ran # << >>
       /\ last' = [ kind |-> "failure", event |-> "click", guildId |-> guildId,
                    userId |-> userId, by |-> "handleButton", itemId |-> byManager.itemId,
                    thrown |-> err, due |-> byManager.ran, ran |-> byManager.ran,
                    rejected |-> caught.rejects, escaped |-> caught.rejects,
                    reported |-> caught.reported, title |-> caught.title ]
       /\ UNCHANGED managerUnchanged
       /\ UNCHANGED dispatchUnchanged
       /\ UNCHANGED validatorUnchanged
       /\ UNCHANGED pass
       /\ UNCHANGED running
       /\ UNCHANGED httpUnchanged

\* A reaction for which the body run for the h-th handler of the loops
\* throws err: when executeCode rejects, the listener is left at the await
\* and the handlers after h are not reached.
ReactionThrows(guildId, userId, h, err) ==
    LET handlers == ReactionHandlers(loadedPlugins[guildId])
        upto == ReactionLoop(SubSeq(handlers, 1, h), guildId, userId, cooldowns)
        before == ReactionLoop(SubSeq(handlers, 1, h - 1), guildId, userId, cooldowns)
        all == ReactionLoop(handlers, guildId, userId, cooldowns)
        caught == CatchOf(ErrorPath["messageReactionAdd"], err)
        done == IF caught.rejects THEN upto ELSE all
    IN /\ ~IsBot(userId)
       /\ h \in 1..Len(handlers)
       /\ Len(upto.ran) > Len(before.ran)
       /\ cooldowns' = done.cooldowns
       /\ last' = [ kind |-> "failure", event |-> "reaction", guildId |-> guildId,
                    userId |-> userId, by |-> "messageReactionAdd",
                    itemId |-> handlers[h].itemId,
                    thrown |-> err, due |-> all.ran, ran |-> done.ran,
                    rejected |-> caught.rejects, escaped |-> caught.rejects,
                    reported |-> caught.reported, title |-> caught.title ]
       /\ UNCHANGED managerUnchanged
       /\ UNCHANGED << hostWired, clientCooldowns, now >>
       /\ UNCHANGED validatorUnchanged
       /\ UNCHANGED pass
       /\ UNCHANGED running
       /\ UNCHANGED httpUnchanged

\* A body run by the dispatcher by calls emit.trigger(target, data), and the
\* first body the trigger runs throws err: when the inner executeCode
\* rejects, emit.trigger rejects with the TypeError of its catch block, and
\* the catch of the outer executeCode receives that.
TriggerThrows(guildId, itemId, by, target, data, err) ==
    LET call == EmitTriggerCall(guildId, itemId, target)
        type == SubSeq(target, 1, IndexOf(target, ":") - 1)
        inner == CatchOf(TriggerErrorPath(type, data), err)
        outer == CatchOf(ErrorPath[by], PropertyError(err))
    IN /\ ArrayIncludes(loadedPlugins[guildId], itemId)
       /\ call.ran # << >>
       /\ last' = [ kind |-> "failure", event |-> "trigger", guildId |-> guildId,
                    userId |-> "", by |-> by, itemId |-> itemId,
                    thrown |-> err, due |-> call.ran,
                    ran |-> IF inner.rejects THEN << Head(call.ran) >> ELSE call.ran,
                    rejected |-> inner.rejects,
                    escaped |-> inner.rejects /\ outer.rejects,
                    reported |-> IF inner.rejects THEN outer.reported ELSE inner.reported,
                    title |-> IF inner.rejects THEN outer.title ELSE inner.title ]
       /\ UNCHANGED managerUnchanged
       /\ UNCHANGED dispatchUnchanged
       /\ UNCHANGED validatorUnchanged
       /\ UNCHANGED pass
       /\ UNCHANGED running
       /\ UNCHANGED httpUnchanged

NextFailure ==
    \/ \E g \in ManagedGuilds, u \in Users, c \in FailingContents, k \in 1..8, err \in Thrown :
           MessageThrows(g, u, c, k, err)
    \/ \E g \in ManagedGuilds, u \in Users, b \in ButtonIds, err \in Thrown :
           ClickThrows(g, u, b, err)
    \/ \E g \in ManagedGuilds, u \in Users, h \in 1..4, err \in Thrown :
           ReactionThrows(g, u, h, err)
    \/ \E g \in ManagedGuilds, by \in FailingDispatchers, target \in FailingTargets,
          data \in TriggerData, err \in Thrown :
           TriggerThrows(g, "tickets", by, target, data, err)

SpecFailure == InitReact /\ [][NextFailure]_vars

\* C21: a failure inside one handler invocation stays inside executeCode:
\* whatever the body throws, executeCode does not reject to its caller, and
\* every body due for the event is still run.
C21_FailureContained ==
    last.kind = "failure" => ~last.rejected /\ last.ran = last.due

\* C22: every failure of a handler body is sent to the channel or the
\* interaction of the event, whichever dispatcher ran the body.
C22_FailureReported ==
    last.kind = "failure" => last.reported \in { "channel", "interaction" }

(***************************************************************************)
(* The startup load over tables with rows that do not load                 *)
(***************************************************************************)

\* The rows of the tables: two plugins that load, one whose text has no
\* manifest and one whose scopes do not validate.
StartupRows ==
    { Row("g1", "hello", TRUE), Row("g1", "broken", TRUE),
      Row("g1", "notes", TRUE), Row("g1", "tickets", TRUE) }

InitStartup ==
    /\ InitManager
    /\ persisted \in SeqsNoRepeat(StartupRows, Cardinality(StartupRows))
    /\ hostWired = FALSE
    /\ vIn = NoInput
    /\ vOut = NoValidation

NextStartup ==
    \/ StartupQuery
    \/ StartupLoadNext
    \/ StartupDone

\* loadAllInstalledPlugins alone, from the constructor to its last row.
SpecStartup == InitStartup /\ [][NextStartup]_vars

\* The plugins with a manifest and with scopes that cover what they use.
SoundItems == { "hello", "tickets" }

\* C23: when the startup load has ended, every enabled row of a plugin that
\* parses and validates is loaded for its guild, wherever the rows of the
\* plugins that fail stand in the list, and no failing plugin is loaded.
C23_FailingPluginSkippedAlone ==
    startupPc = "done" =>
        \A i \in 1..Len(persisted) :
            ( persisted[i].enabled /\ persisted[i].itemId \in SoundItems )
                <=> ArrayIncludes(loadedPlugins[persisted[i].guildId], persisted[i].itemId)

\* C23's case: a row without a manifest and a row with missing scopes stand
\* between two rows that load.
C23_Witness ==
    /\ startupPc = "done"
    /\ persisted = << Row("g1", "hello", TRUE), Row("g1", "broken", TRUE),
                      Row("g1", "notes", TRUE), Row("g1", "tickets", TRUE) >>
    /\ loadedPlugins["g1"] = << "hello", "tickets" >>

(***************************************************************************)
(* extractBlockContent as a function                                       *)
(***************************************************************************)

\* The longest text, and the characters the texts are made of.
MaxBlockLen == 4
BlockChars == { "{", "}", "a", " " }

\* The first index from i on (0-based, as in the code) where text holds c;
\* text.length when there is none.
RECURSIVE ScanFor(_, _, _)
ScanFor(text, i, c) ==
    IF i >= Len(text) THEN Len(text)
    ELSE IF CharAt(text, i + 1) = c THEN i
    ELSE ScanFor(text, i + 1, c)

\* The second loop: the index where depth returns to 0, text.length when it
\* does not.
RECURSIVE ScanClose(_, _, _)
ScanClose(text, i, depth) ==
    IF i >= Len(text) THEN Len(text)
    ELSE IF CharAt(text, i + 1) = "{" THEN ScanClose(text, i + 1, depth + 1)
    ELSE IF CharAt(text, i + 1) = "}"
    THEN IF depth - 1 = 0 THEN i ELSE ScanClose(text, i + 1, depth - 1)
    ELSE ScanClose(text, i + 1, depth)

\* String.prototype.trim, for texts whose white space is the blank.
RECURSIVE Trim(_)
Trim(t) ==
    IF t = "" THEN ""
    ELSE IF CharAt(t, 1) = " " THEN Trim(SubSeq(t, 2, Len(t)))
    ELSE IF CharAt(t, Len(t)) = " " THEN Trim(SubSeq(t, 1, Len(t) - 1))
    ELSE t

\* extractBlockContent(text, startIndex)
extractBlockContent(text, startIndex) ==
    LET opening == ScanFor(text, startIndex, "{")
        closing == ScanClose(text, opening + 1, 1)
    IN IF opening >= Len(text) THEN [ content |-> "", endIndex |-> startIndex ]
       ELSE [ content |-> Trim(SubSeq(text, opening + 2, closing)),
              endIndex |-> closing + 1 ]

\* The texts of up to MaxBlockLen characters.
BlockTexts == { Concat(q) : q \in UNION { [ 1..k -> BlockChars ] : k \in 0..MaxBlockLen } }

\* The call extractBlockContent(text, startIndex) that is about to be made.
InitBlock ==
    /\ persisted = << >>
    /\ startupPc = "done"
    /\ startupQueue = << >>
    /\ installedPlugins = [ g \in Guilds |-> << >> ]
    /\ loadedPlugins = [ g \in Guilds |-> << >> ]
    /\ hostWired = FALSE
    /\ cooldowns = NoCooldowns
    /\ clientCooldowns = NoCooldowns
    /\ now = 0
    /\ \E text \in BlockTexts : \E i \in 0..Len(text) :
           last = [ kind |-> "call", text |-> text, startIndex |-> i ]
    /\ vIn = NoInput
    /\ vOut = NoValidation
    /\ InitHttp
    /\ running = << >>
    /\ pass = << >>

\* The call returns.
ExtractBlock ==
    /\ last.kind = "call"
    /\ last' = [ kind |-> "extractBlockContent", text |-> last.text,
                 startIndex |-> last.startIndex,
                 content |-> extractBlockContent(last.text, last.startIndex).content,
                 endIndex |-> extractBlockContent(last.text, last.startIndex).endIndex ]
    /\ UNCHANGED managerUnchanged
    /\ UNCHANGED dispatchUnchanged
    /\ UNCHANGED validatorUnchanged
    /\ UNCHANGED pass
    /\ UNCHANGED running
    /\ UNCHANGED httpUnchanged

NextBlock == ExtractBlock

SpecBlock == InitBlock /\ [][NextBlock]_vars

\* The positions (1-based) of the first "{" at or after the start index of
\* the last call, and of the "}" that matches it: the first one up to which
\* as many "}" as "{" stand from the opening on.
Openings == { j \in (last.startIndex + 1)..Len(last.text) : CharAt(last.text, j) = "{" }
FirstOpening == CHOOSE j \in Openings : \A k \in Openings : j <= k
Count(c, from, to) ==
    Cardinality({ j \in from..to : CharAt(last.text, j) = c })
Closings ==
    { j \in (FirstOpening + 1)..Len(last.text) :
        /\ CharAt(last.text, j) = "}"
        /\ Count("{", FirstOpening, j) = Count("}", FirstOpening, j) }
MatchingClosing == CHOOSE j \in Closings : \A k \in Closings : j <= k

\* C27: extractBlockContent returns the text strictly between the first "{"
\* at or after the index and its matching "}", and the index just past that
\* "}", never beyond the end of the text; without a "{" it returns the
\* empty text and the index it was given.
C27_ExtractBlockContent ==
    last.kind = "extractBlockContent" =>
        /\ last.endIndex <= Len(last.text)
        /\ IF Openings = { }
           THEN last.content = "" /\ last.endIndex = last.startIndex
           ELSE Closings # { } =>
                  /\ last.content = SubSeq(last.text, FirstOpening + 1, MatchingClosing - 1)
                  /\ last.endIndex = MatchingClosing

(***************************************************************************)
(* The HTTP log over hours, and requests in flight                         *)
(***************************************************************************)

\* Half an hour passes.
HalfHour ==
    /\ now < MaxTime * ((60 * 60 * 1000) \div 2000)
    /\ now' = now + ((60 * 60 * 1000) \div 2000)
    /\ UNCHANGED << hostWired, cooldowns, clientCooldowns, last >>
    /\ UNCHANGED httpUnchanged
    /\ UNCHANGED managerUnchanged
    /\ UNCHANGED validatorUnchanged
    /\ UNCHANGED pass
    /\ UNCHANGED running

NextHttpHours ==
    \/ \E i \in HttpItems, url \in Urls : makeRequest(HttpGuild, i, url)
    \/ \E i \in 1..MaxRequests, success \in BOOLEAN : Settle(i, success)
    \/ \E d \in Domains : blockDomain(d)
    \/ \E v \in PerMinuteChoices : setRequestLimit(v)
    \/ HalfHour

\* The HTTP client of the sandbox over a clock that runs for hours.
SpecHttpHours == InitHttpClient /\ [][NextHttpHours]_vars

\* C28: after every request attempt through http.get, accepted or rejected,
\* the log retained for the (guild, plugin) of the attempt holds no entry
\* older than one hour.
C28_LogWithinWindow ==
    ( last.kind = "http" /\ last.via = "http" ) =>
        LET log == LogsOf(httpLogs, HttpKey(last.guildId, last.itemId))
        IN \A k \in 1..Len(log) :
               log[k].timestamp > last.time * 1000 - 60 * 60 * 1000

\* C29: a request that http.get hands to the HTTP library is, with the calls
\* of its (guild, plugin) started within the last minute and still in
\* flight, within the configured per-minute limit.
C29_StartedWithinLimit ==
    ( last.kind = "http" /\ last.via = "http" /\ last.called ) =>
        last.unsettled + 1 <= requestLimits.maxRequestsPerMinute

(***************************************************************************)
(* The search order of a guild's plugins                                   *)
(***************************************************************************)

\* Two plugins define a command of the same name or a button of the same id.
DefineSame(p, q) ==
    \/ \E name \in { "hello", "ticket", "roll", "ticket.create", "ticket.close" } :
           CommandsHas(Plugin[p], name) /\ CommandsHas(Plugin[q], name)
    \/ \E id \in ButtonIds : ButtonsHas(Plugin[p], id) /\ ButtonsHas(Plugin[q], id)

\* C30: of two loaded plugins of a guild that define the same command name
\* or button id, the one searched first is the one whose installed record
\* comes first, as when both were first loaded; a togglePlugin false and
\* then true of either leaves that as it was.
C30_SearchOrderStable ==
    \A g \in Guilds :
        \A i, j \in 1..Len(loadedPlugins[g]) :
            ( i < j /\ DefineSame(loadedPlugins[g][i], loadedPlugins[g][j]) )
                => FindIndex(installedPlugins[g], loadedPlugins[g][i])
                       < FindIndex(installedPlugins[g], loadedPlugins[g][j])



(***************************************************************************)
(* The README's Hello World plugin, from install to one invocation          *)
(***************************************************************************)

\* The marketplace id the Hello World plugin is published under.
HelloItem == "helloworld"

\* The Hello World plugin of the README: one command whose on_command body
\* is one guilds.send to the channel of the message.
SrcReadme ==
    [ manifest |-> TRUE, name |-> "HelloWorld", scopes |-> << "messages.send" >>,
      uses |-> << >>,
      commands |-> <<
        [ name |-> "hello", cooldown |-> 0, userPermissions |-> << >>,
          botPermissions |-> << >>, usage |-> "?hello", parameters |-> << >>,
          onPermissionDeniedBot |-> NoBody, onPermissionDeniedUser |-> NoBody,
          onCooldown |-> NoBody, onCommand |-> << SendHello >> ] >>,
      buttons |-> << >> ]

\* The scopes lines an author may publish the plugin with.
ReadmeScopes == { << "messages.send" >>, << >>, << "channels.create" >> }

\* The LoadedPlugin loadInstalledPlugin builds from the plugin's text.
HelloPlugin ==
    [ itemId |-> HelloItem,
      manifest |-> parseManifest(SrcReadme),
      commands |-> parseCommands(SrcReadme),
      buttonHandlers |-> parseButtonHandlers(SrcReadme) ]

\* loadedPlugins.get(guildId).get(itemId)
PluginOf(itemId) == IF itemId = HelloItem THEN HelloPlugin ELSE Plugin[itemId]

\* The messages members type in a guild with the Hello World plugin.
HelloContents == { "?hello", "?Hello world", "hello", "?help", "?" }

\* installPluginFromMarketplace for the Hello World item: the text is
\* validated against the scopes of its manifest, and the plugin is recorded
\* and loaded when validation passes.
InstallHello(guildId) ==
    LET v == validate(vIn.code, extractImports(vIn.code), vIn.scopes)
        r == IF ~v.valid
             THEN Returned("install", guildId, HelloItem, FALSE,
                           "Scope validation failed", v.errors)
             ELSE IF FindIndex(installedPlugins[guildId], HelloItem) # 0
             THEN Returned("install", guildId, HelloItem, FALSE, "Already installed", << >>)
             ELSE Returned("install", guildId, HelloItem, TRUE, "Installed", << >>)
    IN /\ last' = r
       /\ IF r.success
          THEN /\ installedPlugins' =
                    [ installedPlugins EXCEPT ![guildId] =
                        Append(@, [ itemId |-> HelloItem, enabled |-> TRUE ]) ]
               /\ loadedPlugins' = loadInstalledPlugin(loadedPlugins, guildId, HelloItem)
          ELSE UNCHANGED << installedPlugins, loadedPlugins >>
       /\ UNCHANGED << persisted, startupPc, startupQueue >>
       /\ UNCHANGED dispatchUnchanged
       /\ UNCHANGED validatorUnchanged
       /\ UNCHANGED pass
       /\ UNCHANGED running
       /\ UNCHANGED httpUnchanged

\* handleCommand(message) for a guild whose Map holds the Hello World plugin
\* alone: the plugin has no logic block, so no listener runs before the
\* command is looked up.
HelloCommand(guildPlugins, content) ==
    IF ~StartsWith(content, "?") \/ guildPlugins = << >> THEN NoMatch
    ELSE LET tokens == Split(Slice(content, 1), " ")
             commandName == ToLowerCase(Head(tokens))
             args == Tail(tokens)
             potentialSubcommand ==
                 IF Len(args) > 0 THEN commandName \o "." \o ToLowerCase(Head(args))
                 ELSE commandName
         IN IF commandName = "" THEN NoMatch
            ELSE IF Len(args) > 0 /\ CommandsHas(HelloPlugin, potentialSubcommand)
            THEN RunCommand(HelloItem, potentialSubcommand,
                            CommandsGet(HelloPlugin, potentialSubcommand), Tail(args))
            ELSE IF CommandsHas(HelloPlugin, commandName)
            THEN RunCommand(HelloItem, commandName,
                            CommandsGet(HelloPlugin, commandName), args)
            ELSE [ NoMatch EXCEPT !.commandName = commandName, !.args = args ]

\* A host command handler that sends nothing.
handlePluginCommands_silent(guildPlugins, content) == << >>

\* handlePluginCommands(client, message) of the host, for a member's message
\* in a sendable channel: the first loaded plugin that has the full or the
\* base command gets an attribution embed sent to the channel; the command
\* itself is left to the manager's listener.
handlePluginCommands(guildPlugins, content) ==
    IF ~StartsWith(content, "?") THEN << >>
    ELSE LET parts == Split(Slice(content, 1), " ")
             baseCommand == ToLowerCase(parts[1])
             subCommand == IF Len(parts) > 1 THEN ToLowerCase(parts[2]) ELSE ""
             fullCommandName == IF subCommand # "" THEN baseCommand \o "." \o subCommand
                                ELSE baseCommand
             found == First({ i \in 1..Len(guildPlugins) :
                                \/ CommandsHas(PluginOf(guildPlugins[i]), fullCommandName)
                                \/ CommandsHas(PluginOf(guildPlugins[i]), baseCommand) })
         IN IF baseCommand = "" \/ found = 0 THEN << >>
            ELSE << [ embed |-> "Command executed by plugin",
                      plugin |-> PluginOf(guildPlugins[found]).manifest.name ] >>

\* client.emit('messageCreate', msg) in a guild of the Hello World
\* deployment: the manager's listener runs handleCommand, and the host's
\* message handler calls handlePluginCommands when the host registered it.
HelloMessage(guildId, userId, content) ==
    LET out == HelloCommand(loadedPlugins[guildId], content)
    IN /\ last' =
            [ kind |-> "hello", guildId |-> guildId, userId |-> userId,
              content |-> content, plugins |-> loadedPlugins[guildId],
              key |-> out.commandName, itemId |-> out.itemId,
              reply |-> out.reply, ran |-> out.ran,
              notice |-> IF hostWired
                         THEN handlePluginCommands(loadedPlugins[guildId], content)
                         ELSE << >> ]
       /\ UNCHANGED managerUnchanged
       /\ UNCHANGED dispatchUnchanged
       /\ UNCHANGED validatorUnchanged
       /\ UNCHANGED pass
       /\ UNCHANGED running
       /\ UNCHANGED httpUnchanged

\* A bot with no plugin installed; the marketplace serves the Hello World
\* text with one of the scopes lines, and the host may have registered its
\* own handlers.
InitHello ==
    /\ persisted = << >>
    /\ startupPc = "done"
    /\ startupQueue = << >>
    /\ installedPlugins = [ g \in Guilds |-> << >> ]
    /\ loadedPlugins = [ g \in Guilds |-> << >> ]
    /\ cooldowns = NoCooldowns
    /\ clientCooldowns = NoCooldowns
    /\ now = 0
    /\ last = Nothing
    /\ InitHttp
    /\ running = << >>
    /\ pass = << >>
    /\ hostWired \in BOOLEAN
    /\ vIn \in { [ code |-> SourceText([ SrcReadme EXCEPT !.scopes = s ]), scopes |-> s ] :
                   s \in ReadmeScopes }
    /\ vOut = NoValidation

NextHello ==
    \/ \E g \in Guilds : InstallHello(g)
    \/ \E g \in Guilds, u \in Users, c \in HelloContents : HelloMessage(g, u, c)
    \/ Tick

SpecHello == InitHello /\ [][NextHello]_vars

\* The messages that invoke the command hello.
HelloInvocations == { "?hello", "?Hello world" }

\* The messages one event puts into the channel: those the body sends, the
\* usage reply, and the host's attribution notice.
MessagesSent ==
    Len(Flatten([ i \in 1..Len(last.ran) |->
                    SelectSeq(last.ran[i].ops, LAMBDA op : op = "message.send") ]))
      + Len(last.reply) + Len(last.notice)

\* The install of the Hello World plugin published with scopes
\* ["messages.send"] passes validation and loads it.
HelloInstalls ==
    (/\ last.kind = "install"
     /\ last.itemId = HelloItem
     /\ vIn.scopes = << "messages.send" >>
     /\ last.message # "Already installed")
        => /\ last.success
           /\ HelloItem \in Range(loadedPlugins[last.guildId])

\* One invocation of the command in a guild where the plugin is loaded.
HelloInvoked ==
    /\ last.kind = "hello"
    /\ last.content \in HelloInvocations
    /\ HelloItem \in Range(last.plugins)

\* C26 as stated: a plugin declaring scopes ["messages.send"] whose single
\* command body only calls guilds.send passes validation and is loaded, and
\* one invocation of the command executes the body once and results in
\* exactly one message being sent to the channel.
C26_OneMessage ==
    /\ HelloInstalls
    /\ HelloInvoked =>
          /\ Len(last.ran) = 1
          /\ last.ran[1].section = "on_command"
          /\ MessagesSent = 1

\* C26, amended: the plugin passes validation and is loaded, and one
\* invocation of the command executes the body once; the body sends exactly
\* one message to the channel, and the host's command handler, when the
\* host registered it, adds one attribution notice to the same channel.
C26_OneMessageByPlugin ==
    /\ HelloInstalls
    /\ HelloInvoked =>
          /\ Len(last.ran) = 1
          /\ last.ran[1].section = "on_command"
          /\ last.ran[1].ops = << "message.send" >>
          /\ last.reply = << >>
          /\ Len(last.notice) = (IF hostWired THEN 1 ELSE 0)
          /\ MessagesSent = (IF hostWired THEN 2 ELSE 1)

\* The command was invoked on a bot whose host registered its handler.
C26_Witness ==
    /\ HelloInvoked
    /\ hostWired
    /\ Len(last.ran) = 1
    /\ Len(last.notice) = 1



(***************************************************************************)
(* The plugin command over the persisted records, across restarts           *)
(***************************************************************************)

\* The items members manage through the plugin command.
CommandItems == { "hello", "tickets" }

\* prisma.installedPlugin.findUnique({ guildId_itemId }): the position of
\* the row; 0 for null.
FindUnique(rows, guildId, itemId) ==
    First({ i \in 1..Len(rows) : rows[i].guildId = guildId /\ rows[i].itemId = itemId })

\* What a handler of the plugin command did: the row it found, what the
\* manager's method returned, and whether it reached its success reply.
Handled(sub, guildId, itemId, row, result, success) ==
    [ kind |-> "plugin", sub |-> sub, guildId |-> guildId, itemId |-> itemId,
      row |-> row, result |-> result, success |-> success ]

\* The state of a persisted row as a handler sees it.
RowState(rows, guildId, itemId) ==
    IF FindUnique(rows, guildId, itemId) = 0 THEN "none"
    ELSE IF rows[FindUnique(rows, guildId, itemId)].enabled THEN "enabled"
    ELSE "disabled"

\* handleInstall: ?plugin install <itemId>
handleInstall(guildId, itemId) ==
    LET row == RowState(persisted, guildId, itemId)
        r == InstallOutcome(guildId, itemId)
    IN /\ startupPc = "done"
       /\ IF row # "none"
          THEN /\ last' = Handled("install", guildId, itemId, row, "", FALSE)
               /\ UNCHANGED << persisted, installedPlugins, loadedPlugins >>
          ELSE IF ~r.success
          THEN /\ last' = Handled("install", guildId, itemId, row, r.message, FALSE)
               /\ UNCHANGED << persisted, installedPlugins, loadedPlugins >>
          ELSE /\ last' = Handled("install", guildId, itemId, row, r.message, TRUE)
               /\ installedPlugins' =
                    [ installedPlugins EXCEPT ![guildId] =
                        Append(@, [ itemId |-> itemId, enabled |-> TRUE ]) ]
               /\ loadedPlugins' = loadInstalledPlugin(loadedPlugins, guildId, itemId)
               /\ persisted' = Append(persisted, Row(guildId, itemId, TRUE))
       /\ UNCHANGED << startupPc, startupQueue >>
       /\ UNCHANGED dispatchUnchanged
       /\ UNCHANGED validatorUnchanged
       /\ UNCHANGED pass
       /\ UNCHANGED running
       /\ UNCHANGED httpUnchanged

\* togglePlugin(guildId, itemId, enabled): what it returns and the records
\* of the manager after it.
togglePlugin(installed, guildId, itemId, enabled) ==
    IF FindIndex(installed[guildId], itemId) = 0
    THEN [ success |-> FALSE, message |-> "Not found", installed |-> installed ]
    ELSE [ success |-> TRUE,
           message |-> IF enabled THEN "Enabled" ELSE "Disabled",
           installed |-> [ installed EXCEPT
                             ![guildId][FindIndex(installed[guildId], itemId)].enabled =
                                 enabled ] ]

\* handleEnable and handleDisable: ?plugin enable|disable <itemId>
handleToggle(guildId, itemId, enabled) ==
    LET row == RowState(persisted, guildId, itemId)
        sub == IF enabled THEN "enable" ELSE "disable"
        result == togglePlugin(installedPlugins, guildId, itemId, enabled)
    IN /\ startupPc = "done"
       /\ IF row = "none" \/ row = (IF enabled THEN "enabled" ELSE "disabled")
          THEN /\ last' = Handled(sub, guildId, itemId, row, "", FALSE)
               /\ UNCHANGED << persisted, installedPlugins, loadedPlugins >>
          ELSE IF ~result.success
          THEN /\ last' = Handled(sub, guildId, itemId, row, result.message, FALSE)
               /\ UNCHANGED << persisted, installedPlugins, loadedPlugins >>
          ELSE /\ last' = Handled(sub, guildId, itemId, row, result.message, TRUE)
               /\ installedPlugins' = result.installed
               /\ loadedPlugins' =
                    IF enabled
                    THEN loadInstalledPlugin(loadedPlugins, guildId, itemId)
                    ELSE [ loadedPlugins EXCEPT ![guildId] = MapDelete(@, itemId) ]
               /\ persisted' =
                    [ persisted EXCEPT
                        ![FindUnique(persisted, guildId, itemId)].enabled = enabled ]
       /\ UNCHANGED << startupPc, startupQueue >>
       /\ UNCHANGED dispatchUnchanged
       /\ UNCHANGED validatorUnchanged
       /\ UNCHANGED pass
       /\ UNCHANGED running
       /\ UNCHANGED httpUnchanged

\* handleUninstall: ?plugin uninstall <itemId>
handleUninstall(guildId, itemId) ==
    LET row == RowState(persisted, guildId, itemId)
        idx == FindIndex(installedPlugins[guildId], itemId)
    IN /\ startupPc = "done"
       /\ IF row = "none"
          THEN /\ last' = Handled("uninstall", guildId, itemId, row, "", FALSE)
               /\ UNCHANGED << persisted, installedPlugins, loadedPlugins >>
          ELSE IF idx = 0
          THEN /\ last' = Handled("uninstall", guildId, itemId, row, "Not found", FALSE)
               /\ UNCHANGED << persisted, installedPlugins, loadedPlugins >>
          ELSE /\ last' = Handled("uninstall", guildId, itemId, row, "Uninstalled", TRUE)
               /\ installedPlugins' =
                    [ installedPlugins EXCEPT ![guildId] = Splice(@, idx) ]
               /\ loadedPlugins' = [ loadedPlugins EXCEPT ![guildId] = MapDelete(@, itemId) ]
               /\ persisted' = Splice(persisted, FindUnique(persisted, guildId, itemId))
       /\ UNCHANGED << startupPc, startupQueue >>
       /\ UNCHANGED dispatchUnchanged
       /\ UNCHANGED validatorUnchanged
       /\ UNCHANGED pass
       /\ UNCHANGED running
       /\ UNCHANGED httpUnchanged

\* The process is stopped and started again: a new manager is constructed
\* with empty maps over the same database.
Restart ==
    /\ startupPc = "done"
    /\ startupPc' = "query"
    /\ startupQueue' = << >>
    /\ installedPlugins' = [ g \in Guilds |-> << >> ]
    /\ loadedPlugins' = [ g \in Guilds |-> << >> ]
    /\ cooldowns' = NoCooldowns
    /\ clientCooldowns' = NoCooldowns
    /\ last' = [ kind |-> "restart" ]
    /\ UNCHANGED << persisted, hostWired, now >>
    /\ UNCHANGED validatorUnchanged
    /\ UNCHANGED pass
    /\ running' = << >>
    /\ UNCHANGED httpUnchanged

\* The bot starts over an empty table of installed plugins.
InitCommand ==
    /\ InitManager
    /\ persisted = << >>
    /\ hostWired = FALSE
    /\ vIn = NoInput
    /\ vOut = NoValidation

NextCommand ==
    \/ \E g \in ManagedGuilds, p \in CommandItems : handleInstall(g, p)
    \/ \E g \in ManagedGuilds, p \in CommandItems, en \in BOOLEAN : handleToggle(g, p, en)
    \/ \E g \in ManagedGuilds, p \in CommandItems : handleUninstall(g, p)
    \/ Restart
    \/ StartupQuery
    \/ StartupLoadNext
    \/ StartupDone

\* The plugin command, the startup load and restarts; the command is used
\* once the startup load has ended.
SpecCommand == InitCommand /\ [][NextCommand]_vars

\* C25: any plugin recorded as installed in persistence can be enabled
\* (when disabled) and uninstalled through the plugin command at any time,
\* including after a restart that happened while it was disabled: enabling
\* yields a loaded plugin, uninstalling deletes its record.
C25_PersistedPluginManageable ==
    /\ (last.kind = "plugin" /\ last.sub = "enable" /\ last.row = "disabled")
          => /\ last.success
             /\ IsLoaded(last.guildId, last.itemId)
             /\ RowState(persisted, last.guildId, last.itemId) = "enabled"
    /\ (last.kind = "plugin" /\ last.sub = "uninstall" /\ last.row # "none")
          => /\ last.success
             /\ RowState(persisted, last.guildId, last.itemId) = "none"



(***************************************************************************)
(* The time-box of a handler execution                                      *)
(***************************************************************************)

\* The longest chain of awaited executions that is told apart from a longer
\* one.
MaxDepth == 3

\* The statements of a handler body, as the async wrapper of executeCode
\* runs them:
\*   send   `await guilds.send(...)`, a host call that settles;
\*   loop   `while (true) { }`;
\*   never  `await new Promise(() => { })`, a promise nothing settles;
\*   throw  a statement that throws;
\*   emit   `await emit.trigger("event:<target>", { })`.
Statement(op, target) == [ op |-> op, target |-> target ]

\* The bodies of the handlers and event blocks, by name.
Bodies ==
    [ reply |-> << Statement("send", "") >>,
      spin |-> << Statement("loop", "") >>,
      late_spin |-> << Statement("send", ""), Statement("loop", "") >>,
      wait |-> << Statement("never", "") >>,
      throws |-> << Statement("throw", "") >>,
      relay |-> << Statement("emit", "reply"), Statement("send", "") >>,
      again |-> << Statement("send", ""), Statement("emit", "again") >> ]

\* The dispatchers that start a handler body.
Dispatchers == { "handleCommand", "handleButton", "messageReactionAdd" }

\* executeCode has called plugin.vm.run for the body: the execution is at
\* its first statement, inside the synchronous run the VM's timeout covers.
Execution(by, body) == [ by |-> by, body |-> body, pc |-> 1, timed |-> TRUE ]

\* The innermost execution and the statement it is at.
Innermost == running[Len(running)]

Current ==
    IF Innermost.pc <= Len(Bodies[Innermost.body])
    THEN Bodies[Innermost.body][Innermost.pc]
    ELSE Statement("end", "")

\* The chain after the innermost executeCode has resolved: the execution
\* that awaited it goes on with its next statement.
Resolved ==
    IF Len(running) = 1 THEN << >>
    ELSE [ SubSeq(running, 1, Len(running) - 1) EXCEPT ![Len(running) - 1].pc = @ + 1 ]

\* What is kept of an execution that ended.
Ended(outcome, error) ==
    [ kind |-> "execution", by |-> Innermost.by, body |-> Innermost.body,
      depth |-> Len(running), outcome |-> outcome, error |-> error ]

\* An event reaches a dispatcher, which calls executeCode for a body.
StartExecution(by, body) ==
    /\ running = << >>
    /\ pass = << >>
    /\ running' = << Execution(by, body) >>
    /\ last' = [ kind |-> "execution", by |-> by, body |-> body, depth |-> 1,
                 outcome |-> "running", error |-> "" ]
    /\ UNCHANGED managerUnchanged
    /\ UNCHANGED dispatchUnchanged
    /\ UNCHANGED validatorUnchanged
    /\ UNCHANGED pass
    /\ UNCHANGED httpUnchanged

\* The host call a body awaits settles and the body goes on; from its first
\* await on, the body runs outside the synchronous run of the VM.
AwaitSettles ==
    /\ running # << >>
    /\ Current.op = "send"
    /\ running' = [ running EXCEPT ![Len(running)].pc = @ + 1,
                                   ![Len(running)].timed = FALSE ]
    /\ UNCHANGED last
    /\ UNCHANGED managerUnchanged
    /\ UNCHANGED dispatchUnchanged
    /\ UNCHANGED validatorUnchanged
    /\ UNCHANGED pass
    /\ UNCHANGED httpUnchanged

\* new VM({ timeout: 5000 }): vm.run throws when its synchronous run exceeds
\* the timeout; the catch of executeCode takes the error.
VMTimeout ==
    /\ running # << >>
    /\ Current.op = "loop"
    /\ Innermost.timed
    /\ last' = Ended("timeout", "Script execution timed out after 5000ms")
    /\ running' = Resolved
    /\ UNCHANGED managerUnchanged
    /\ UNCHANGED dispatchUnchanged
    /\ UNCHANGED validatorUnchanged
    /\ UNCHANGED pass
    /\ UNCHANGED httpUnchanged

\* The body throws: the promise of the wrapper rejects into the catch of
\* executeCode.
BodyThrows ==
    /\ running # << >>
    /\ Current.op = "throw"
    /\ last' = Ended("failed", "x is not defined")
    /\ running' = Resolved
    /\ UNCHANGED managerUnchanged
    /\ UNCHANGED dispatchUnchanged
    /\ UNCHANGED validatorUnchanged
    /\ UNCHANGED pass
    /\ UNCHANGED httpUnchanged

\* emit.trigger: handleCustomEventTrigger awaits executeCode for the event
\* block, and the body that called it awaits the trigger.  A chain of
\* MaxDepth executions stands for every longer one.
AwaitTrigger ==
    /\ running # << >>
    /\ Current.op = "emit"
    /\ running' =
         IF Len(running) < MaxDepth
         THEN Append([ running EXCEPT ![Len(running)].timed = FALSE ],
                     Execution("emit.trigger", Current.target))
         ELSE [ running EXCEPT ![Len(running)] =
                    Execution("emit.trigger", Current.target) ]
    /\ UNCHANGED last
    /\ UNCHANGED managerUnchanged
    /\ UNCHANGED dispatchUnchanged
    /\ UNCHANGED validatorUnchanged
    /\ UNCHANGED pass
    /\ UNCHANGED httpUnchanged

\* The body runs to its end: the promise of the wrapper fulfils and
\* executeCode resolves.
BodyReturns ==
    /\ running # << >>
    /\ Current.op = "end"
    /\ last' = Ended("completed", "")
    /\ running' = Resolved
    /\ UNCHANGED managerUnchanged
    /\ UNCHANGED dispatchUnchanged
    /\ UNCHANGED validatorUnchanged
    /\ UNCHANGED pass
    /\ UNCHANGED httpUnchanged

InitBudget == InitReact

NextBudget ==
    \/ \E by \in Dispatchers, body \in DOMAIN Bodies : StartExecution(by, body)
    \/ AwaitSettles
    \/ VMTimeout
    \/ BodyThrows
    \/ AwaitTrigger
    \/ BodyReturns

\* Handler executions on the event loop: a continuation that is ready is
\* run, a host call that is awaited settles, and the VM's timer fires.
SpecBudget ==
    /\ InitBudget
    /\ [][NextBudget]_vars
    /\ WF_vars(AwaitSettles)
    /\ WF_vars(VMTimeout)
    /\ WF_vars(BodyThrows)
    /\ WF_vars(AwaitTrigger)
    /\ WF_vars(BodyReturns)

\* C24: every handler execution eventually ends: it completes, fails, or is
\* aborted and reported as a timeout failure; no handler body is left
\* running, including bodies that wait on asynchronous operations and
\* bodies whose triggers re-emit the same event.
C24_EveryExecutionEnds == (running # << >>) ~> (running = << >>)



(***************************************************************************)
(* The entries of the cooldown maps and the actions they belong to          *)
(***************************************************************************)

\* The key, the user string and the seconds plugin code passes to
\* cooldown.set.
KeyArgs ==
    { << "daily", "u1", 2 >>, << "vote", "a:u1", 2 >>, << "vote:a", "u1", 2 >>,
      << "reaction_handler", "u1", 2 >> }

\* An action of a plugin of a guild that a member can be on cooldown for.
Action(guildId, itemId, action, userId) ==
    [ guildId |-> guildId, itemId |-> itemId, action |-> action, userId |-> userId ]

\* The plugin whose handler the host's button handler finds for a button id.
ButtonOwner(guildId, buttonId) ==
    IF FirstWithButton(loadedPlugins[guildId], buttonId) = 0 THEN ""
    ELSE loadedPlugins[guildId][FirstWithButton(loadedPlugins[guildId], buttonId)]

\* The actions with a cooldown: the keys of the sandbox of CooldownPlugin,
\* the reaction handlers of each loaded plugin, and the buttons the host's
\* handler finds with a cooldown line.
Actions ==
    { Action(g, CooldownPlugin, "cooldown:" \o c[1], c[2]) :
        g \in { g \in Guilds : ArrayIncludes(loadedPlugins[g], CooldownPlugin) },
        c \in KeyArgs }
    \cup { Action(g, h.itemId, "reaction", u) :
             g \in Guilds, h \in { h \in Range(ReactionHandlers(loadedPlugins["g1"])
                                               \o ReactionHandlers(loadedPlugins["g2"])) :
                                     h.cooldown # 0 },
             u \in Users }
    \cup { Action(g, ButtonOwner(g, b), "button:" \o b, u) :
             g \in { g \in Guilds : \E b \in ButtonIds : ButtonOwner(g, b) # "" },
             b \in ButtonIds, u \in Users }

\* Whether the code that checks the cooldown of an action finds it on
\* cooldown in the maps.
OnCooldown(a, map, clientMap) ==
    IF a.action = "reaction"
    THEN /\ ArrayIncludes(loadedPlugins[a.guildId], a.itemId)
         /\ is_on(map, ReactionKey(a.guildId, a.itemId, a.userId))
    ELSE IF StartsWith(a.action, "button:")
    THEN /\ a.itemId # ""
         /\ DeclaredButton(a.itemId, Slice(a.action, 7)).cooldown # 0
         /\ DateNow < ExpirationTime(clientMap,
                          "button_" \o Slice(a.action, 7) \o "_" \o a.userId)
    ELSE is_on(map, CooldownKey(a.guildId, a.itemId, Slice(a.action, 9), a.userId))

\* What is kept of an event that set cooldowns: the actions it set one for
\* and the actions that were on cooldown before it.
CooldownsSet(by, actions) ==
    [ kind |-> "set", by |-> by, actions |-> actions,
      before |-> { a \in Actions : OnCooldown(a, cooldowns, clientCooldowns) } ]

\* cooldown.set(key, userId, seconds) called by the code of CooldownPlugin.
KeyedSet(guildId, key, userId, seconds) ==
    /\ ArrayIncludes(loadedPlugins[guildId], CooldownPlugin)
    /\ cooldowns' = CooldownSet(cooldowns,
                                CooldownKey(guildId, CooldownPlugin, key, userId),
                                DateNow + seconds * 1000)
    /\ last' = CooldownsSet("sandbox",
                   { Action(guildId, CooldownPlugin, "cooldown:" \o key, userId) })
    /\ UNCHANGED managerUnchanged
    /\ UNCHANGED << hostWired, clientCooldowns, now >>
    /\ UNCHANGED validatorUnchanged
    /\ UNCHANGED pass
    /\ UNCHANGED running
    /\ UNCHANGED httpUnchanged

\* A reaction of a member: the listener sets the cooldown of each plugin
\* whose handler runs its execute body.
KeyedReaction(guildId, userId) ==
    LET outcome == ReactionLoop(ReactionHandlers(loadedPlugins[guildId]), guildId, userId,
                                cooldowns)
        started == { k \in 1..Len(outcome.ran) : outcome.ran[k].section = "execute" }
    IN /\ cooldowns' = outcome.cooldowns
       /\ last' = CooldownsSet("reaction",
                      { Action(guildId, outcome.ran[k].itemId, "reaction", userId) :
                          k \in { k \in started :
                                    \E h \in Range(parseReactionHandlers(outcome.ran[k].itemId)) :
                                        /\ h.index = outcome.ran[k].handler
                                        /\ h.cooldown # 0 } })
       /\ UNCHANGED managerUnchanged
       /\ UNCHANGED << hostWired, clientCooldowns, now >>
       /\ UNCHANGED validatorUnchanged
       /\ UNCHANGED pass
       /\ UNCHANGED running
       /\ UNCHANGED httpUnchanged

\* A click of a member: the host's button handler sets the cooldown of the
\* button when it runs the handler.
KeyedClick(guildId, userId, buttonId) ==
    LET byHost == hostButtonHandler(guildId, userId, buttonId)
    IN /\ hostWired
       /\ clientCooldowns' = byHost.cooldowns
       /\ last' = CooldownsSet("button",
                      IF byHost.cooldowns # clientCooldowns
                      THEN { Action(guildId, byHost.itemId, "button:" \o buttonId, userId) }
                      ELSE { })
       /\ UNCHANGED managerUnchanged
       /\ UNCHANGED << hostWired, cooldowns, now >>
       /\ UNCHANGED validatorUnchanged
       /\ UNCHANGED pass
       /\ UNCHANGED running
       /\ UNCHANGED httpUnchanged

\* The plugins loaded per guild when cooldowns are set.
KeyTables ==
    { [ g \in Guilds |-> IF g = "g1" THEN << "tickets", "hello" >> ELSE << "tickets" >> ],
      [ g \in Guilds |-> IF g = "g1" THEN << "hello", "tickets" >> ELSE << >> ] }

\* A bot with plugins loaded whose host registered its button handler.
InitKeys ==
    /\ persisted = << >>
    /\ startupPc = "done"
    /\ startupQueue = << >>
    /\ loadedPlugins \in KeyTables
    /\ installedPlugins =
         [ g \in Guilds |->
             [ i \in 1..Len(loadedPlugins[g]) |->
                 [ itemId |-> loadedPlugins[g][i], enabled |-> TRUE ] ] ]
    /\ hostWired = TRUE
    /\ cooldowns = NoCooldowns
    /\ clientCooldowns = NoCooldowns
    /\ now = 0
    /\ last = Nothing
    /\ vIn = NoInput
    /\ vOut = NoValidation
    /\ InitHttp
    /\ running = << >>
    /\ pass = << >>

NextKeys ==
    \/ \E g \in ManagedGuilds, c \in KeyArgs : KeyedSet(g, c[1], c[2], c[3])
    \/ \E g \in Guilds, u \in Users : KeyedReaction(g, u)
    \/ \E g \in Guilds, u \in Users, b \in ButtonIds : KeyedClick(g, u, b)

\* Cooldowns set by plugin code, by the reaction listener and by the host's
\* button handler within one second.
SpecKeys == InitKeys /\ [][NextKeys]_vars

\* C31: distinct (guild, plugin, action-key, user) tuples never share a
\* cooldown entry: a cooldown set through one plugin's sandbox, or by a
\* button or reaction dispatcher, never puts a different action-key/user
\* pair of that plugin, or any action of another plugin or another guild, on
\* cooldown.
C31_OwnEntryOnly ==
    last.kind = "set" =>
        \A a \in Actions :
            OnCooldown(a, cooldowns, clientCooldowns)
                => (a \in last.actions \/ a \in last.before)



(***************************************************************************)
(* The listener pass, step by step, next to the management calls            *)
(***************************************************************************)

\* The management calls that run while one pass waits.
MaxCalls == 2

\* The messages of the passes.
PassContents == { "?ticket create", "hello there" }

\* The pass in progress.
Pass == pass[1]

\* plugin.logicHandlers of the plugin object the inner loop holds.
PassHandlers == parseLogicHandlers(Pass.plugin)

\* The position of a key in a Map; 0 when the Map has no such key.
MapIndex(keys, k) == First({ i \in 1..Len(keys) : keys[i] = k })

\* Map.prototype.delete under a Map iterator: the entries the iterator has
\* passed are one fewer when the deleted entry is one of them.
PassAfterDelete(guildId, itemId) ==
    IF /\ pass # << >>
       /\ Pass.guildId = guildId
       /\ MapIndex(loadedPlugins[guildId], itemId) # 0
       /\ MapIndex(loadedPlugins[guildId], itemId) <= Pass.visited
    THEN << [ Pass EXCEPT !.visited = @ - 1 ] >>
    ELSE pass

\* handleCommand calls handleLogicListeners(message): the outer loop starts
\* over the Map of the guild.
PassBegin(guildId, userId, content) ==
    /\ pass = << >>
    /\ pass' = << [ guildId |-> guildId, userId |-> userId, content |-> content,
                    visited |-> 0, plugin |-> "", handler |-> 0, awaiting |-> FALSE,
                    evaluated |-> << >>, calls |-> 0 ] >>
    /\ last' = [ kind |-> "pass", guildId |-> guildId, content |-> content ]
    /\ UNCHANGED managerUnchanged
    /\ UNCHANGED dispatchUnchanged
    /\ UNCHANGED validatorUnchanged
    /\ UNCHANGED running
    /\ UNCHANGED httpUnchanged

\* for (const [itemId, plugin] of plugins): the iterator gives the next
\* entry of the Map as it is now, or the loop ends.
PassNextPlugin ==
    /\ pass # << >>
    /\ ~Pass.awaiting
    /\ IF Pass.plugin = "" THEN TRUE ELSE Pass.handler > Len(PassHandlers)
    /\ IF Pass.visited < Len(loadedPlugins[Pass.guildId])
       THEN /\ pass' = << [ Pass EXCEPT
                              !.plugin = loadedPlugins[Pass.guildId][Pass.visited + 1],
                              !.visited = @ + 1,
                              !.handler = 1 ] >>
            /\ UNCHANGED last
       ELSE /\ pass' = << >>
            /\ last' = [ kind |-> "passed", guildId |-> Pass.guildId,
                         content |-> Pass.content, evaluated |-> Pass.evaluated ]
    /\ UNCHANGED managerUnchanged
    /\ UNCHANGED dispatchUnchanged
    /\ UNCHANGED validatorUnchanged
    /\ UNCHANGED running
    /\ UNCHANGED httpUnchanged

\* One turn of the inner loop: a handler that is no on_listen is skipped;
\* the pattern of a listener is evaluated in the VM of the plugin object the
\* loop holds, and on true executeCode is called for its action, which
\* awaits the host calls of the body.
PassEvaluate ==
    /\ pass # << >>
    /\ ~Pass.awaiting
    /\ Pass.plugin # ""
    /\ Pass.handler <= Len(PassHandlers)
    /\ LET h == PassHandlers[Pass.handler]
           matched == /\ EvalPattern(h.pattern, Pass.content) = "true"
                      /\ h.action # NoBody
       IN IF h.type # "on_listen"
          THEN /\ pass' = << [ Pass EXCEPT !.handler = @ + 1 ] >>
               /\ UNCHANGED last
          ELSE /\ pass' = << [ Pass EXCEPT
                                 !.evaluated = Append(@, << Pass.plugin, Pass.handler >>),
                                 !.awaiting = matched,
                                 !.handler = IF matched THEN @ ELSE @ + 1 ] >>
               /\ IF matched
                  THEN last' = [ kind |-> "body", guildId |-> Pass.guildId,
                                 itemId |-> Pass.plugin, handler |-> Pass.handler,
                                 loaded |-> ArrayIncludes(loadedPlugins[Pass.guildId],
                                                          Pass.plugin) ]
                  ELSE UNCHANGED last
    /\ UNCHANGED managerUnchanged
    /\ UNCHANGED dispatchUnchanged
    /\ UNCHANGED validatorUnchanged
    /\ UNCHANGED running
    /\ UNCHANGED httpUnchanged

\* The action body ends and executeCode resolves: the inner loop goes on.
PassResume ==
    /\ pass # << >>
    /\ Pass.awaiting
    /\ pass' = << [ Pass EXCEPT !.awaiting = FALSE, !.handler = @ + 1 ] >>
    /\ UNCHANGED last
    /\ UNCHANGED managerUnchanged
    /\ UNCHANGED dispatchUnchanged
    /\ UNCHANGED validatorUnchanged
    /\ UNCHANGED running
    /\ UNCHANGED httpUnchanged

\* Another event's handler runs only while no pass runs or while the pass
\* waits for the host calls of a body.
BetweenTurns == IF pass = << >> THEN TRUE ELSE Pass.awaiting /\ Pass.calls < MaxCalls

\* The pass after a management call ran next to it.
PassAfterCall(p) == IF p = << >> THEN p ELSE << [ p[1] EXCEPT !.calls = @ + 1 ] >>

\* togglePlugin(guildId, itemId, enabled), called from another event while
\* no pass runs or while the pass waits for a body.
PassToggle(guildId, itemId, enabled) ==
    LET result == togglePlugin(installedPlugins, guildId, itemId, enabled)
    IN /\ BetweenTurns
       /\ last' = Returned("toggle", guildId, itemId, result.success, result.message, << >>)
       /\ installedPlugins' = result.installed
       /\ IF ~result.success
          THEN /\ UNCHANGED loadedPlugins
               /\ pass' = PassAfterCall(pass)
          ELSE IF enabled
          THEN /\ loadedPlugins' = loadInstalledPlugin(loadedPlugins, guildId, itemId)
               /\ pass' = PassAfterCall(pass)
          ELSE /\ loadedPlugins' = [ loadedPlugins EXCEPT ![guildId] = MapDelete(@, itemId) ]
               /\ pass' = PassAfterCall(PassAfterDelete(guildId, itemId))
       /\ UNCHANGED << persisted, startupPc, startupQueue >>
       /\ UNCHANGED dispatchUnchanged
       /\ UNCHANGED << vIn, vOut >>
       /\ UNCHANGED running
       /\ UNCHANGED httpUnchanged

\* uninstallPlugin(guildId, itemId), called from another event while no pass
\* runs or while the pass waits for a body.
PassUninstall(guildId, itemId) ==
    LET idx == FindIndex(installedPlugins[guildId], itemId)
    IN /\ BetweenTurns
       /\ IF idx = 0
          THEN /\ last' = Returned("uninstall", guildId, itemId, FALSE, "Not found", << >>)
               /\ UNCHANGED << installedPlugins, loadedPlugins >>
               /\ pass' = PassAfterCall(pass)
          ELSE /\ last' = Returned("uninstall", guildId, itemId, TRUE, "Uninstalled", << >>)
               /\ installedPlugins' =
                    [ installedPlugins EXCEPT ![guildId] = Splice(@, idx) ]
               /\ loadedPlugins' = [ loadedPlugins EXCEPT ![guildId] = MapDelete(@, itemId) ]
               /\ pass' = PassAfterCall(PassAfterDelete(guildId, itemId))
       /\ UNCHANGED << persisted, startupPc, startupQueue >>
       /\ UNCHANGED dispatchUnchanged
       /\ UNCHANGED << vIn, vOut >>
       /\ UNCHANGED running
       /\ UNCHANGED httpUnchanged

InitPass == InitReact

NextPass ==
    \/ \E g \in ManagedGuilds, u \in Users, c \in PassContents : PassBegin(g, u, c)
    \/ PassNextPlugin
    \/ PassEvaluate
    \/ PassResume
    \/ \E g \in ManagedGuilds, p \in CommandItems, en \in BOOLEAN : PassToggle(g, p, en)
    \/ \E g \in ManagedGuilds, p \in CommandItems : PassUninstall(g, p)

\* Messages dispatched to the listeners while plugins are disabled, enabled
\* and uninstalled.
SpecPass == InitPass /\ [][NextPass]_vars

\* C32: once togglePlugin(g, p, false) or uninstallPlugin(g, p) has
\* returned, no handler body of plugin p in guild g starts executing for any
\* event, including events whose dispatch pass over the loaded plugins was
\* already in progress when the plugin was disabled.
C32_NoBodyAfterDisable ==
    last.kind = "body" => last.loaded


\* No listener occurs twice among the evaluations of a pass.
EvaluatedOnce(evaluated) ==
    \A i, j \in 1..Len(evaluated) : i # j => evaluated[i] # evaluated[j]

\* C35: each on_listen listener of a loaded plugin is evaluated at most once
\* per incoming message, even if plugins of that guild are disabled,
\* re-enabled or uninstalled while the listener pass for that message is
\* still in progress.
C35_ListenerOncePerMessage ==
    /\ pass # << >> => EvaluatedOnce(pass[1].evaluated)
    /\ last.kind = "passed" => EvaluatedOnce(last.evaluated)


(***************************************************************************)
(* Transpiler rewrites                                                     *)
(***************************************************************************)

\* The statements the texts given to the transpiler are made of.
MaxStatements == 2

\* \w of the transpiler's regexes, over the characters the model's texts are
\* written in.
WordChars == (ImportChars \ { "." }) \cup
             { "0", "1", "2", "3", "4", "5", "6", "7", "8", "9" }

\* The n characters of t from position i; "" when t ends before them.
At(t, i, n) == IF i >= 1 /\ i + n - 1 <= Len(t) THEN SubSeq(t, i, i + n - 1) ELSE ""

\* \b before position i, where a word character stands at i.
WordStartsAt(t, i) == IF i = 1 THEN TRUE ELSE CharAt(t, i - 1) \notin WordChars

\* \b after a word that ends right before position i.
WordEndsAt(t, i) == IF i > Len(t) THEN TRUE ELSE CharAt(t, i) \notin WordChars

\* The least number of a non-empty set of numbers.
Least(S) == CHOOSE x \in S : \A y \in S : x <= y

\* The text of t from position i on.
Rest(t, i) == SubSeq(t, i, Len(t))

\* The first position at or after i that holds no whitespace (\s*).
SkipSpaces(t, i) ==
    IF i > Len(t) THEN i
    ELSE Least({ j \in i..(Len(t) + 1) :
                    IF j > Len(t) THEN TRUE ELSE CharAt(t, j) \notin SpaceChars })

\* The first position at or after i that holds no word character (\w*).
SkipWord(t, i) ==
    IF i > Len(t) THEN i
    ELSE Least({ j \in i..(Len(t) + 1) :
                    IF j > Len(t) THEN TRUE ELSE CharAt(t, j) \notin WordChars })

\* The position of the first "{" at or after i; 0 when there is none.
NextBrace(t, i) ==
    LET braces == { j \in i..Len(t) : CharAt(t, j) = "{" }
    IN  IF braces = {} THEN 0 ELSE Least(braces)

\* js.replace(/\bword\b/g, to), scanned from position i.
RECURSIVE ReplaceWord(_, _, _, _)
ReplaceWord(t, i, word, to) ==
    LET matches == { j \in i..Len(t) : /\ At(t, j, Len(word)) = word
                                       /\ WordStartsAt(t, j)
                                       /\ WordEndsAt(t, j + Len(word)) }
        j == Least(matches)
    IN  IF matches = {} THEN Rest(t, i)
        ELSE SubSeq(t, i, j - 1) \o to \o ReplaceWord(t, j + Len(word), word, to)

\* js.replace(/\sop\s/g, to), scanned from position i.
RECURSIVE ReplaceSpaced(_, _, _, _)
ReplaceSpaced(t, i, op, to) ==
    LET matches == { j \in i..Len(t) : /\ CharAt(t, j) \in SpaceChars
                                       /\ At(t, j + 1, Len(op)) = op
                                       /\ At(t, j + 1 + Len(op), 1) \in SpaceChars }
        j == Least(matches)
    IN  IF matches = {} THEN Rest(t, i)
        ELSE SubSeq(t, i, j - 1) \o to \o ReplaceSpaced(t, j + Len(op) + 2, op, to)

\* js.replace(/literal/g, to) for a pattern without metacharacters, scanned
\* from position i.
RECURSIVE ReplaceLiteral(_, _, _, _)
ReplaceLiteral(t, i, literal, to) ==
    LET matches == { j \in i..Len(t) : At(t, j, Len(literal)) = literal }
        j == Least(matches)
    IN  IF matches = {} THEN Rest(t, i)
        ELSE SubSeq(t, i, j - 1) \o to
             \o ReplaceLiteral(t, j + Len(literal), literal, to)

\* Step 2 of transpile: the keywords and what they become, in order.
KeywordRewrites ==
    << << "let", "const" >>, << "and", "&&" >>, << "or", "||" >>, << "not", "!" >> >>

\* Step 3 of transpile: the comparison operators and what they become, in
\* order.
OperatorRewrites ==
    << << "===", " === " >>, << "==", " === " >>, << "!==", " !== " >>,
       << "!=", " !== " >> >>

\* The keyword replacements from the n-th on; an empty text holds none.
RECURSIVE Keywords(_, _)
Keywords(t, n) ==
    IF t = "" \/ n > Len(KeywordRewrites) THEN t
    ELSE Keywords(ReplaceWord(t, 1, KeywordRewrites[n][1], KeywordRewrites[n][2]),
                  n + 1)

\* The operator replacements from the n-th on.
RECURSIVE Operators(_, _)
Operators(t, n) ==
    IF t = "" \/ n > Len(OperatorRewrites) THEN t
    ELSE Operators(ReplaceSpaced(t, 1, OperatorRewrites[n][1], OperatorRewrites[n][2]),
                   n + 1)

\* /\bcatch\s+(\w+)\s*{/ matches at position j.
CatchAt(t, j) ==
    LET name == SkipSpaces(t, j + 5)
        stop == SkipWord(t, name)
    IN  /\ At(t, j, 5) = "catch"
        /\ WordStartsAt(t, j)
        /\ name > j + 5
        /\ stop > name
        /\ At(t, SkipSpaces(t, stop), 1) = "{"

\* js.replace(/\bcatch\s+(\w+)\s*{/g, 'catch ($1) {'), scanned from position i.
RECURSIVE ReplaceCatch(_, _)
ReplaceCatch(t, i) ==
    LET matches == { j \in i..Len(t) : CatchAt(t, j) }
        j == Least(matches)
        name == SkipSpaces(t, j + 5)
        stop == SkipWord(t, name)
    IN  IF matches = {} THEN Rest(t, i)
        ELSE SubSeq(t, i, j - 1) \o "catch (" \o SubSeq(t, name, stop - 1) \o ") {"
             \o ReplaceCatch(t, SkipSpaces(t, stop) + 1)

\* /\bif\s+([^{]+)\s*(?:->\s*)?{/ matches at position j: the greedy [^{]+
\* takes everything up to the next brace, an arrow included.
IfAt(t, j) ==
    /\ At(t, j, 2) = "if"
    /\ WordStartsAt(t, j)
    /\ At(t, j + 2, 1) \in SpaceChars
    /\ NextBrace(t, j + 2) > j + 3

\* js.replace(/\bif\s+([^{]+)\s*(?:->\s*)?{/g, (match, condition) =>
\* `if (${condition.trim()}) {`), scanned from position i.
RECURSIVE ReplaceIf(_, _)
ReplaceIf(t, i) ==
    LET matches == { j \in i..Len(t) : IfAt(t, j) }
        j == Least(matches)
        brace == NextBrace(t, j + 2)
    IN  IF matches = {} THEN Rest(t, i)
        ELSE SubSeq(t, i, j - 1) \o "if (" \o Trim(SubSeq(t, j + 2, brace - 1))
             \o ") {" \o ReplaceIf(t, brace + 1)

\* The string methods replaceCustomFunctions renames.
StringMethods ==
    << << ".to_lower()", ".toLowerCase()" >>, << ".to_upper()", ".toUpperCase()" >>,
       << ".contains(", ".includes(" >>, << ".starts_with(", ".startsWith(" >>,
       << ".ends_with(", ".endsWith(" >> >>

RECURSIVE ReplaceEach(_, _, _)
ReplaceEach(t, pairs, n) ==
    IF t = "" \/ n > Len(pairs) THEN t
    ELSE ReplaceEach(ReplaceLiteral(t, 1, pairs[n][1], pairs[n][2]), pairs, n + 1)

\* replaceCustomFunctions on a text that calls none of the embed, format and
\* button helpers: catch, if, string methods.
replaceCustomFunctions(t) ==
    ReplaceEach(ReplaceIf(ReplaceCatch(t, 1), 1), StringMethods, 1)

\* asyncFunctions and asyncMethods of addAwaitToAsyncCalls, in order.
asyncFunctions ==
    << "db.insert", "db.update", "db.delete", "db.query", "db.query_one",
       "db.use", "db.set", "db.send", "guilds.send", "guilds.create_channel",
       "guilds.fetch", "guilds.fetch_channel", "users.get", "users.fetch",
       "time.now", "fastlink.connect", "emit.trigger" >>

asyncMethods == << "send", "create_channel", "delete", "fetch" >>

\* The (?<!await ) lookbehind at position i.
Awaited(t, i) == At(t, i - 6, 6) = "await "

\* (?<!await )\bfunc\s*\( matches at position j.
FunctionAt(t, j, func) ==
    /\ At(t, j, Len(func)) = func
    /\ WordStartsAt(t, j)
    /\ ~ Awaited(t, j)
    /\ At(t, SkipSpaces(t, j + Len(func)), 1) = "("

\* js.replace(new RegExp(`(?<!await )\\b${func}\\s*\\(`, 'g'),
\* `await ${func}(`), scanned from position i.
RECURSIVE AwaitFunction(_, _, _)
AwaitFunction(t, i, func) ==
    LET matches == { j \in i..Len(t) : FunctionAt(t, j, func) }
        j == Least(matches)
    IN  IF matches = {} THEN Rest(t, i)
        ELSE SubSeq(t, i, j - 1) \o "await " \o func \o "("
             \o AwaitFunction(t, SkipSpaces(t, j + Len(func)) + 1, func)

\* (?<!await )\b([a-zA-Z_]\w*)\.method\s*\( matches at position j.
MethodAt(t, j, method) ==
    LET stop == SkipWord(t, j)
    IN  /\ stop > j
        /\ CharAt(t, j) \notin { "0", "1", "2", "3", "4", "5", "6", "7", "8", "9" }
        /\ WordStartsAt(t, j)
        /\ ~ Awaited(t, j)
        /\ At(t, stop, 1 + Len(method)) = "." \o method
        /\ At(t, SkipSpaces(t, stop + 1 + Len(method)), 1) = "("

\* js.replace(/(?<!await )\b([a-zA-Z_]\w*)\.method\s*\(/g, ...), scanned from
\* position i: the match is kept as it is for guilds, users and db.
RECURSIVE AwaitMethod(_, _, _)
AwaitMethod(t, i, method) ==
    LET matches == { j \in i..Len(t) : MethodAt(t, j, method) }
        j == Least(matches)
        stop == SkipWord(t, j)
        varName == SubSeq(t, j, stop - 1)
        paren == SkipSpaces(t, stop + 1 + Len(method))
    IN  IF matches = {} THEN Rest(t, i)
        ELSE SubSeq(t, i, j - 1)
             \o (IF varName \in { "guilds", "users", "db" }
                 THEN SubSeq(t, j, paren)
                 ELSE "await " \o varName \o "." \o method \o "(")
             \o AwaitMethod(t, paren + 1, method)

RECURSIVE AwaitFunctions(_, _)
AwaitFunctions(t, n) ==
    IF t = "" \/ n > Len(asyncFunctions) THEN t
    ELSE AwaitFunctions(AwaitFunction(t, 1, asyncFunctions[n]), n + 1)

RECURSIVE AwaitMethods(_, _)
AwaitMethods(t, n) ==
    IF t = "" \/ n > Len(asyncMethods) THEN t
    ELSE AwaitMethods(AwaitMethod(t, 1, asyncMethods[n]), n + 1)

addAwaitToAsyncCalls(t) == AwaitMethods(AwaitFunctions(t, 1), 1)

\* Steps 2 to 4 of transpile, the textual rewrites of the handler's code.
Rewrites(t) ==
    addAwaitToAsyncCalls(replaceCustomFunctions(Operators(Keywords(t, 1), 1)))

\* The statements handler code is written from.
Statements ==
    { "if x {", "if (x) {", "let a = 1", "a == b", "a != b", "not a and b or c",
      "} catch e {", "guilds.send(c, m)", "ch.send (m)", "db.delete(k)",
      "await time.now()", "s.to_lower().contains(k)", "letter android" }

\* The texts of n statements, one after the other.
RECURSIVE TextsOf(_)
TextsOf(n) ==
    IF n = 1 THEN Statements
    ELSE { t \o " " \o s : t \in TextsOf(n - 1), s \in Statements }

HandlerTexts == UNION { TextsOf(n) : n \in 1..MaxStatements }

\* The rewrites applied to a handler's code, and applied again to their result.
Rewrite ==
    /\ last.kind = "code"
    /\ \E once \in { Rewrites(last.code) } : \E twice \in { Rewrites(once) } :
           last' = [ kind |-> "rewritten", code |-> last.code,
                     once |-> once, twice |-> twice ]
    /\ UNCHANGED managerUnchanged
    /\ UNCHANGED dispatchUnchanged
    /\ UNCHANGED validatorUnchanged
    /\ UNCHANGED httpUnchanged
    /\ UNCHANGED running
    /\ UNCHANGED pass

InitRewrite ==
    /\ persisted = << >>
    /\ startupPc = "done"
    /\ startupQueue = << >>
    /\ installedPlugins = [ g \in Guilds |-> << >> ]
    /\ loadedPlugins = [ g \in Guilds |-> << >> ]
    /\ hostWired = FALSE
    /\ cooldowns = NoCooldowns
    /\ clientCooldowns = NoCooldowns
    /\ now = 0
    /\ \E code \in HandlerTexts : last = [ kind |-> "code", code |-> code ]
    /\ vIn = NoInput
    /\ vOut = NoValidation
    /\ InitHttp
    /\ running = << >>
    /\ pass = << >>

NextRewrite == Rewrite

SpecRewrite == InitRewrite /\ [][NextRewrite]_vars

\* C33: the rewrites are idempotent: applied to text they have already
\* rewritten they leave it unchanged, and no call carries two awaits.
C33_RewritesIdempotent ==
    last.kind = "rewritten" =>
        /\ last.twice = last.once
        /\ ~ Includes(last.twice, "await await ")


(***************************************************************************)
(* One installed record per plugin                                         *)
(***************************************************************************)

\* How many installed records guild g holds for item p.
RecordCount(g, p) ==
    Cardinality({ i \in 1..Len(installedPlugins[g]) : installedPlugins[g][i].itemId = p })

\* C34: no guild's installed list holds two records of one plugin, an install
\* during the startup load included, and when uninstallPlugin has succeeded no
\* record of the plugin remains in the guild.
C34_OneRecordPerPlugin ==
    /\ \A g \in Guilds, p \in ItemIds : RecordCount(g, p) <= 1
    /\ (last.kind = "uninstall" /\ last.success) =>
           RecordCount(last.guildId, last.itemId) = 0

(***************************************************************************)
(* cooldown.remaining                                                      *)
(***************************************************************************)

\* cooldown.remaining: (userId, key) => Math.max(0, expiry - Date.now()) over
\* the entry `${guildId}:${itemId}:${key}:${userId}`.
remaining(map, guildId, itemId, userId, key) ==
    LET expiry == ExpirationTime(map, CooldownKey(guildId, itemId, key, userId))
    IN  IF expiry - DateNow > 0 THEN expiry - DateNow ELSE 0

\* Plugin code of a guild calls cooldown.is_on(first, second) and
\* cooldown.remaining(first, second) with the same two arguments.
SandboxCooldownRemaining(guildId, first, second) ==
    /\ last' = [ kind |-> "cooldown.remaining", guildId |-> guildId,
                 key |-> first, userId |-> second, time |-> now, sets |-> Sets,
                 is_on |-> is_on(cooldowns,
                                 CooldownKey(guildId, CooldownPlugin, first, second)),
                 remaining |-> remaining(cooldowns, guildId, CooldownPlugin,
                                         first, second) ]
    /\ UNCHANGED managerUnchanged
    /\ UNCHANGED dispatchUnchanged
    /\ UNCHANGED validatorUnchanged
    /\ UNCHANGED pass
    /\ UNCHANGED running
    /\ UNCHANGED httpUnchanged

NextRemaining ==
    \/ \E g \in ManagedGuilds, c \in CooldownCalls, n \in CooldownSpans :
          SandboxCooldownSet(g, c[1], c[2], n)
    \/ \E g \in ManagedGuilds, c \in CooldownCalls :
          SandboxCooldownRemaining(g, c[1], c[2])
    \/ Tick

\* cooldown.set, and cooldown.is_on with cooldown.remaining, as time passes.
SpecRemaining == InitCooldown /\ [][NextRemaining]_vars

\* C36: with the key and the member in the same argument positions,
\* cooldown.remaining is above 0 exactly while cooldown.is_on is true.
C36_RemainingWhileOn ==
    last.kind = "cooldown.remaining" => (last.remaining > 0 <=> last.is_on)

(***************************************************************************)
(* getHttpLogs                                                             *)
(***************************************************************************)

\* Two guilds whose ids begin alike, with the plugins that make requests
\* loaded in both, and the URLs their code asks for.
LogGuilds == { "g1", "g12" }
LogUrls == { "http://ok.example/", "ftp://evil.example/d" }

\* Every entry of the lists of the keys, the keys taken in some order.
RECURSIVE EntriesOf(_, _)
EntriesOf(logs, keys) ==
    IF keys = { } THEN << >>
    ELSE LET k == CHOOSE x \in keys : TRUE
         IN  logs[k] \o EntriesOf(logs, keys \ { k })

\* logs.sort((a, b) => b.timestamp.getTime() - a.timestamp.getTime()): the
\* latest first, entries of one instant in the order they had.
RECURSIVE SortLatestFirst(_)
SortLatestFirst(entries) ==
    IF entries = << >> THEN << >>
    ELSE LET latest == CHOOSE i \in 1..Len(entries) :
                           /\ \A j \in 1..Len(entries) :
                                  entries[j].timestamp <= entries[i].timestamp
                           /\ \A j \in 1..(i - 1) :
                                  entries[j].timestamp < entries[i].timestamp
         IN  << entries[latest] >>
             \o SortLatestFirst([ j \in 1..(Len(entries) - 1) |->
                                    IF j < latest THEN entries[j] ELSE entries[j + 1] ])

\* getHttpLogs(guildId, pluginId?): the list of the key when a plugin is
\* named, else the entries of every key that starts with the guild id.
getHttpLogs(logs, guildId, pluginId) ==
    IF pluginId # ""
    THEN LogsOf(logs, HttpKey(guildId, pluginId))
    ELSE SortLatestFirst(EntriesOf(logs, { k \in DOMAIN logs : StartsWith(k, guildId) }))

\* How many requests the plugins of the guilds have made.
LogCount == Len(inFlight) + Len(EntriesOf(httpLogs, DOMAIN httpLogs))

\* http.get(url) in the sandbox of a plugin of one of the guilds.
LoggedRequest(guildId, itemId, url) ==
    /\ LogCount < MaxRequests
    /\ makeRequest(guildId, itemId, url)

\* An administrator reads the logs of a guild, or of one plugin of a guild.
GetHttpLogs(guildId, pluginId) ==
    /\ last' = [ kind |-> "getHttpLogs", guildId |-> guildId, pluginId |-> pluginId,
                 logs |-> getHttpLogs(httpLogs, guildId, pluginId) ]
    /\ UNCHANGED httpUnchanged
    /\ UNCHANGED managerUnchanged
    /\ UNCHANGED dispatchUnchanged
    /\ UNCHANGED validatorUnchanged
    /\ UNCHANGED pass
    /\ UNCHANGED running

InitLogs ==
    /\ persisted = << >>
    /\ startupPc = "done"
    /\ startupQueue = << >>
    /\ loadedPlugins = [ g \in LogGuilds |-> << "hello", "tickets" >> ]
    /\ installedPlugins =
         [ g \in LogGuilds |->
             [ i \in 1..Len(loadedPlugins[g]) |->
                 [ itemId |-> loadedPlugins[g][i], enabled |-> TRUE ] ] ]
    /\ hostWired = FALSE
    /\ cooldowns = NoCooldowns
    /\ clientCooldowns = NoCooldowns
    /\ now = 0
    /\ last = Nothing
    /\ vIn = NoInput
    /\ vOut = NoValidation
    /\ InitHttp
    /\ running = << >>
    /\ pass = << >>

NextLogs ==
    \/ \E g \in LogGuilds, i \in HttpItems, url \in LogUrls : LoggedRequest(g, i, url)
    \/ \E i \in 1..MaxRequests, success \in BOOLEAN : Settle(i, success)
    \/ \E g \in LogGuilds, p \in HttpItems \cup { "" } : GetHttpLogs(g, p)

\* The requests of the plugins of two guilds and the reading of their logs.
SpecLogs == InitLogs /\ [][NextLogs]_vars

\* C37: getHttpLogs(g) returns only entries of guild g, and getHttpLogs(g, p)
\* only entries of plugin p in guild g, also when one guild id begins with
\* another.
C37_LogsOfGuildOnly ==
    last.kind = "getHttpLogs" =>
        \A i \in 1..Len(last.logs) :
            /\ last.logs[i].guildId = last.guildId
            /\ last.pluginId # "" => last.logs[i].pluginId = last.pluginId

(***************************************************************************)
(* One log entry per request                                               *)
(***************************************************************************)

\* The methods makeRequest is called with: the four of the sandbox's client
\* and one the switch has no case for.
Methods == { "GET", "PATCH" }

\* The URLs the requests name: one of a host that gets blocked, one that does
\* not start with http.
AttemptUrls == { "http://evil.example/a", "ftp://evil.example/d" }

NextAttempts ==
    \/ \E method \in Methods, i \in HttpItems, url \in AttemptUrls :
          makeRequestWith(method, HttpGuild, i, url)
    \/ \E i \in 1..MaxRequests, success \in BOOLEAN : Settle(i, success)
    \/ \E d \in Domains : blockDomain(d)
    \/ \E v \in PerMinuteChoices : setRequestLimit(v)
    \/ HalfMinute

\* The requests of the plugins of a guild, of every method, under the
\* administrator's blocks and limits.
SpecAttempts == InitHttpClient /\ [][NextAttempts]_vars

\* The list of the key after the step is an earlier state of it, pruned or
\* not, with one entry of this instant appended.
OneAppended(key, guildId, pluginId) ==
    LET after == LogsOf(httpLogs', key)
    IN  /\ after # << >>
        /\ SubSeq(after, 1, Len(after) - 1)
              \in { LogsOf(httpLogs, key), RecentLogs(httpLogs, key) }
        /\ after[Len(after)].guildId = guildId
        /\ after[Len(after)].pluginId = pluginId
        /\ after[Len(after)].timestamp = DateNow
        /\ \A k \in DOMAIN httpLogs \ { key } : httpLogs'[k] = httpLogs[k]

\* A step of makeRequest up to the library call.
AttemptStep ==
    /\ last'.kind = "http"
    /\ last'.via = "http"
    /\ << httpLogs, inFlight >>' # << httpLogs, inFlight >>

\* A step in which a library call settles.
SettleStep == last'.kind = "http.settled" /\ inFlight' # inFlight

\* The entries of the key that the rate limits count.
Counted(logs, key) == Len(LastMinute(logs, key))

\* C38: every request appends exactly one entry to the log of its plugin: a
\* rejected one in the call itself, whatever rejects it, an accepted one when
\* its library call settles; and the entry of a rejected request is counted
\* by the limits like any other.
C38_OneEntryPerAttempt ==
    [][ /\ AttemptStep =>
           LET key == HttpKey(last'.guildId, last'.itemId)
           IN  IF last'.called
               THEN /\ Len(inFlight') = Len(inFlight) + 1
                    /\ httpLogs'[key] = RecentLogs(httpLogs, key)
               ELSE /\ inFlight' = inFlight
                    /\ OneAppended(key, last'.guildId, last'.itemId)
                    /\ ~ httpLogs'[key][Len(httpLogs'[key])].success
                    /\ Counted(httpLogs', key) = Counted(httpLogs, key) + 1
        /\ SettleStep =>
               /\ Len(inFlight') = Len(inFlight) - 1
               /\ \E c \in Range(inFlight) :
                      /\ c.key = last'.key
                      /\ OneAppended(c.key, c.guildId, c.pluginId) ]_vars

\* A request is turned away by the per-minute limit in a minute in which every
\* entry of its plugin is the entry of a rejected request.
C38_Witness ==
    /\ last.kind = "http"
    /\ last.via = "http"
    /\ last.error = "HTTP GET failed: Rate limit exceeded: 2 requests per minute"
    /\ inFlight = << >>
    /\ LET logs == LogsOf(httpLogs, HttpKey(last.guildId, last.itemId))
       IN  /\ Len(logs) = 3
           /\ \A i \in 1..Len(logs) : ~ logs[i].success

(***************************************************************************)
(* emit.trigger of a body that is still running                            *)
(***************************************************************************)

\* The plugins whose bodies emit, and the targets they emit.
Emitters == { "hello", "tickets" }
EmitTargets ==
    { "event:ticket_created", "fun:close_ticket_logic", "command:ticket.close",
      "command:nope" }

\* A body of the plugin, loaded in the guild, starts and waits at an await
\* that stands before its emit.trigger(target).
EmitterAwaits(guildId, itemId, target) ==
    /\ running = << >>
    /\ ArrayIncludes(loadedPlugins[guildId], itemId)
    /\ running' = << [ guildId |-> guildId, itemId |-> itemId, target |-> target ] >>
    /\ last' = [ kind |-> "emitter", guildId |-> guildId, itemId |-> itemId ]
    /\ UNCHANGED managerUnchanged
    /\ UNCHANGED dispatchUnchanged
    /\ UNCHANGED validatorUnchanged
    /\ UNCHANGED pass
    /\ UNCHANGED httpUnchanged

\* The await settles and the body calls emit.trigger(target) of the sandbox
\* it was started in, whatever is loaded by now.
EmitterTriggers ==
    /\ running # << >>
    /\ LET e == running[1]
           call == EmitTriggerCall(e.guildId, e.itemId, e.target)
       IN  last' = [ kind |-> "emitted", guildId |-> e.guildId, itemId |-> e.itemId,
                     target |-> e.target, ran |-> call.ran, error |-> call.thrown,
                     loaded |-> ArrayIncludes(loadedPlugins[e.guildId], e.itemId),
                     elsewhere |-> \E g \in Guilds \ { e.guildId } :
                                       ArrayIncludes(loadedPlugins[g], e.itemId) ]
    /\ running' = << >>
    /\ UNCHANGED managerUnchanged
    /\ UNCHANGED dispatchUnchanged
    /\ UNCHANGED validatorUnchanged
    /\ UNCHANGED pass
    /\ UNCHANGED httpUnchanged

NextEmit ==
    \/ \E g \in Guilds, p \in Emitters, target \in EmitTargets : EmitterAwaits(g, p, target)
    \/ EmitterTriggers
    \/ \E g \in Guilds, p \in Emitters, en \in BOOLEAN : Toggle(g, p, en)
    \/ \E g \in Guilds, p \in Emitters : Uninstall(g, p)

\* Bodies that emit triggers while plugins are disabled, enabled and removed.
SpecEmit == InitReact /\ [][NextEmit]_vars

\* The plugin's text defines a body of this section under this name.
Defines(itemId, section, name) ==
    CASE section = "event" ->
            \E k \in 1..Len(LogicSource[itemId].events) :
                LogicSource[itemId].events[k].name = name
      [] section = "on_trigger" ->
            \E k \in 1..Len(parseLogicHandlers(itemId)) :
                /\ parseLogicHandlers(itemId)[k].type = "on_trigger"
                /\ parseLogicHandlers(itemId)[k].pattern = name
      [] section = "fun" ->
            \E k \in 1..Len(LogicSource[itemId].functions) :
                LogicSource[itemId].functions[k].name = name
      [] section = "on_command" -> CommandsHas(Plugin[itemId], name)
      [] OTHER -> FALSE

\* C39: a trigger emitted by plugin p in guild g runs only bodies that p
\* defines, through p's instance loaded in g: it runs nothing, and raises
\* nothing, when p is not loaded in g at that moment, whether or not another
\* guild has p loaded.
C39_TriggerStaysInInstance ==
    last.kind = "emitted" =>
        /\ \A k \in 1..Len(last.ran) :
              /\ last.ran[k].itemId = last.itemId
              /\ Defines(last.itemId, last.ran[k].section, last.ran[k].handler)
        /\ ~ last.loaded => (last.ran = << >> /\ last.error = "")

\* C39's cases: a trigger of a plugin that was unloaded in its guild while
\* another guild has it loaded, and a trigger that runs a body.
C39_Witness ==
    /\ last.kind = "emitted"
    /\ last.itemId = "tickets"
    /\ ~ last.loaded
    /\ last.elsewhere
    /\ last.target = "command:ticket.close"
    /\ last.ran = << >>

(***************************************************************************)
(* The host's attribution and the manager's dispatch                       *)
(***************************************************************************)

\* The messages members send where the host has registered its handlers.
AttributedContents == { "?ticket create", "?ticket close", "?hello", "hello there" }

\* client.emit('messageCreate', msg) with both listeners registered: the
\* host's handlePluginCommands sends its attribution, the manager's
\* handleCommand looks the command up and runs it.
AttributedMessage(guildId, userId, content) ==
    LET out == handleCommand(loadedPlugins[guildId], content)
    IN /\ hostWired
       /\ last' = [ kind |-> "attributed", guildId |-> guildId, userId |-> userId,
                    content |-> content, plugins |-> loadedPlugins[guildId],
                    key |-> out.commandName, itemId |-> out.itemId, ran |-> out.ran,
                    notice |-> handlePluginCommands(loadedPlugins[guildId], content) ]
       /\ UNCHANGED managerUnchanged
       /\ UNCHANGED dispatchUnchanged
       /\ UNCHANGED validatorUnchanged
       /\ UNCHANGED pass
       /\ UNCHANGED running
       /\ UNCHANGED httpUnchanged

NextAttribution ==
    \/ \E g \in Guilds, u \in Users, c \in AttributedContents : AttributedMessage(g, u, c)
    \/ \E g \in Guilds, p \in Emitters, en \in BOOLEAN : Toggle(g, p, en)
    \/ \E g \in Guilds, p \in Emitters : Uninstall(g, p)

\* Messages in guilds whose plugins are disabled, enabled and removed, with
\* the host's message handler registered.
SpecAttribution == InitKeys /\ [][NextAttribution]_vars

\* C40: when handlePluginCommands sends the attribution for a message, the
\* plugin it names is the plugin whose command handler handleCommand runs for
\* that message.
C40_AttributionNamesExecutor ==
    (last.kind = "attributed" /\ last.notice # << >>) =>
        /\ last.itemId # ""
        /\ last.notice[1].plugin = PluginOf(last.itemId).manifest.name
====
